---- MODULE Spec2Model ----
(***************************************************************************)
(* StickerStudio: the layered raster drawing engine of CanvasBoard         *)
(* (per-layer pixel buffers, stroke input, flood fill, snapshot undo/redo, *)
(* text bake, image import, sticker load) and the compositors that flatten *)
(* the layers (getPreview, exportImage, compositeSticker).                 *)
(***************************************************************************)
EXTENDS Integers, Sequences, FiniteSets, TLC

(***************************************************************************)
(* Bounds of the model.                                                    *)
(***************************************************************************)
\* canvas size in pixels (the program uses 370x320, 240x240 and 96x74)
Width == 2
Height == 2
\* cap on the number of HistorySteps held by the two stacks together
MaxHistory == 2
\* cap on the number of image imports whose decode is pending
MaxPending == 1
\* cap on the number of performSave runs started in a session
MaxSaves == 1
\* the same cap in the sessions on thumbnails, where one save follows another
MaxThumbSaves == 2

(***************************************************************************)
(* Pixels and buffers.  A pixel is <<r, g, b, a>>, a buffer (ImageData, a  *)
(* canvas bitmap) is a function from the pixel index cy * Width + cx.      *)
(***************************************************************************)
FILL_TOLERANCE == 40

Pixels == 0 .. (Width * Height - 1)
Transparent == <<0, 0, 0, 0>>
Blank == [i \in Pixels |-> Transparent]
NULL == <<>>
\* the value of a typed-array read outside the array (undefined, NaN in arithmetic)
NaNPx == <<-1, -1, -1, -1>>

Abs(n) == IF n < 0 THEN -n ELSE n

\* colours are "#rrggbb": the six hex digits as a tuple of 0..15; anything
\* else does not match the pattern
hexToRgb(hex) ==
  IF Len(hex) = 6 /\ \A i \in 1..6 : hex[i] \in 0..15
  THEN [r |-> hex[1] * 16 + hex[2], g |-> hex[3] * 16 + hex[4], b |-> hex[5] * 16 + hex[6]]
  ELSE [r |-> 0, g |-> 0, b |-> 0]

Black == <<0, 0, 0, 0, 0, 0>>
Red == <<15, 15, 0, 0, 0, 0>>

\* opacity is held in hundredths (the slider's step is 0.01): floor(opacity * 255)
AlphaOf(opacity) == (opacity * 255) \div 100

\* canvas compositing of one source pixel at globalAlpha ga (hundredths)
SourceOver(dst, src, ga) ==
  LET sa == (src[4] * ga) \div 100
      da == (dst[4] * (255 - sa)) \div 255
      oa == sa + da
      ch(k) == (src[k] * sa + dst[k] * da) \div oa
  IN IF oa = 0 THEN Transparent ELSE <<ch(1), ch(2), ch(3), oa>>

DestinationOut(dst, src, ga) ==
  LET sa == (src[4] * ga) \div 100
      oa == (dst[4] * (255 - sa)) \div 255
  IN IF oa = 0 THEN Transparent ELSE <<dst[1], dst[2], dst[3], oa>>

Composite(op, dst, src, ga) ==
  IF op = "destination-out" THEN DestinationOut(dst, src, ga) ELSE SourceOver(dst, src, ga)

\* ctx.drawImage(img, 0, 0, width, height) under the context's composite operation
DrawImage(op, dst, img, ga) == [i \in Pixels |-> Composite(op, dst[i], img[i], ga)]

\* a shape (stroke, rectangle, glyphs) painted in one colour over the pixels it covers
Paint(op, dst, covered, hex, ga) ==
  LET c == hexToRgb(hex)
      src == <<c.r, c.g, c.b, 255>>
  IN [i \in Pixels |-> IF i \in covered THEN Composite(op, dst[i], src, ga) ELSE dst[i]]

\* canvas.toDataURL('image/png') and its decoding by an Image element; an
\* image has a width, a height and its pixels, row by row
ToDataURL(buf) == [mime |-> "data:image/png", w |-> Width, h |-> Height, px |-> buf]
Decode(url) == url.px
DecodeImage(url) == [w |-> url.w, h |-> url.h, px |-> Decode(url)]

Min(a, b) == IF a < b THEN a ELSE b
Max(a, b) == IF a > b THEN a ELSE b

\* a variant of ImportRect that scales by the larger of the two ratios
ImportRectCover(iw, ih) ==
  LET u == 2 * iw * ih
      byWidth == Width * ih >= Height * iw
      dw == IF byWidth THEN Width * u ELSE (iw * Height * u) \div ih
      dh == IF byWidth THEN (ih * Width * u) \div iw ELSE Height * u
  IN [unit |-> u, x |-> (Width * u - dw) \div 2, y |-> (Height * u - dh) \div 2,
      w |-> dw, h |-> dh]

\* scale = Math.min(width / img.width, height / img.height) and the rectangle
\* ((width - img.width * scale) / 2, (height - img.height * scale) / 2,
\* img.width * scale, img.height * scale), in units of 1 / (2 * img.width *
\* img.height) of a pixel, in which all four numbers are whole
ImportRect(iw, ih) ==
  LET u == 2 * iw * ih
      byWidth == Width * ih <= Height * iw
      dw == IF byWidth THEN Width * u ELSE (iw * Height * u) \div ih
      dh == IF byWidth THEN (ih * Width * u) \div iw ELSE Height * u
  IN [unit |-> u, x |-> (Width * u - dw) \div 2, y |-> (Height * u - dh) \div 2,
      w |-> dw, h |-> dh]

\* ctx.drawImage(img, x, y, w, h): a pixel the rectangle covers in part takes
\* the image at that share of its alpha (the edge is antialiased); the image
\* is sampled at the middle of the part covered
DrawImageAt(op, dst, img, rect) ==
  LET u == rect.unit
      lo(c, from) == Max(c * u, from)
      hi(c, from, len) == Min((c + 1) * u, from + len)
      sample(l, h, from, len, n) == Min(n - 1, ((l + h - 2 * from) * n) \div (2 * len))
  IN [i \in Pixels |->
        LET cx == i % Width
            cy == i \div Width
            ox == hi(cx, rect.x, rect.w) - lo(cx, rect.x)
            oy == hi(cy, rect.y, rect.h) - lo(cy, rect.y)
        IN IF ox <= 0 \/ oy <= 0 THEN dst[i]
           ELSE LET sx == sample(lo(cx, rect.x), hi(cx, rect.x, rect.w), rect.x, rect.w, img.w)
                    sy == sample(lo(cy, rect.y), hi(cy, rect.y, rect.h), rect.y, rect.h, img.h)
                    src == img.px[sy * img.w + sx]
                IN Composite(op, dst[i],
                             <<src[1], src[2], src[3], (src[4] * ox * oy) \div (u * u)>>, 100)]

(***************************************************************************)
(* Flood fill.                                                             *)
(***************************************************************************)
ReadPx(data, idx) == IF idx \in Pixels THEN data[idx] ELSE NaNPx

\* variants of the comparisons and of the fill, used to test the properties
NeverSame(p, q) == FALSE
AnyPixel(p, s) == p # NaNPx
floodFillSeedOnly(data, x, y, fillColor, opacity) ==
  LET c == hexToRgb(fillColor)
      idx == y * Width + x
  IN [data EXCEPT ![idx] = <<c.r, c.g, c.b, AlphaOf(opacity)>>]

\* Math.abs(a - b) < 1 on every channel (false when a channel is NaN)
SamePx(p, q) == p # NaNPx /\ q # NaNPx /\ \A k \in 1..4 : Abs(p[k] - q[k]) < 1

\* Math.abs(a - b) <= FILL_TOLERANCE on every channel (false when a channel is NaN)
WithinTolerance(p, s) ==
  p # NaNPx /\ s # NaNPx /\ \A k \in 1..4 : Abs(p[k] - s[k]) <= FILL_TOLERANCE

\* a variant of Visit that marks nothing
VisitForgets(visited, idx) == visited

\* visited[idx] = 1
Visit(visited, idx) == visited \cup {idx}

\* the loop runs while (stack.length); the model gives up after FillFuel
\* iterations, more than the loop takes (each written pixel pushes four
\* entries, and the seed is one more)
FillFuel == 4 * Width * Height + 1

\* what a run of the loop has done so far: the number of entries popped, the
\* popped entries skipped because their pixel was visited, and the pixels
\* tested against the seed and written, in order
NoLog == [pops |-> 0, skipped |-> 0, tested |-> <<>>, written |-> <<>>]

\* the loop of floodFill: the ImageData, the stack and the log when it ends
RECURSIVE FillRun(_, _, _, _, _, _)
FillRun(stack, visited, data, seedPx, fillPx, log) ==
  IF stack = <<>> \/ log.pops >= FillFuel THEN [data |-> data, stack |-> stack, log |-> log]
  ELSE LET top == stack[Len(stack)]
           rest == SubSeq(stack, 1, Len(stack) - 1)
           cx == top[1]
           cy == top[2]
           idx == cy * Width + cx
           popped == [log EXCEPT !.pops = @ + 1]
       IN IF cx < 0 \/ cx >= Width \/ cy < 0 \/ cy >= Height
          THEN FillRun(rest, visited, data, seedPx, fillPx, popped)
          ELSE IF idx \in visited
          THEN FillRun(rest, visited, data, seedPx, fillPx, [popped EXCEPT !.skipped = @ + 1])
          ELSE IF WithinTolerance(data[idx], seedPx)
          THEN FillRun(rest \o << <<cx + 1, cy>>, <<cx - 1, cy>>, <<cx, cy + 1>>, <<cx, cy - 1>> >>,
                       Visit(visited, idx), [data EXCEPT ![idx] = fillPx], seedPx, fillPx,
                       [popped EXCEPT !.tested = Append(@, idx), !.written = Append(@, idx)])
          ELSE FillRun(rest, Visit(visited, idx), data, seedPx, fillPx,
                       [popped EXCEPT !.tested = Append(@, idx)])

FillLoop(stack, visited, data, seedPx, fillPx) ==
  FillRun(stack, visited, data, seedPx, fillPx, NoLog).data

\* floodFill on the buffer read from the context: NULL when it returns
\* nothing (the seed already has the fill colour), else the filled ImageData
floodFill(data, x, y, fillColor, opacity) ==
  LET c == hexToRgb(fillColor)
      fillPx == <<c.r, c.g, c.b, AlphaOf(opacity)>>
      seedPx == ReadPx(data, y * Width + x)
  IN IF SamePx(seedPx, fillPx) THEN NULL
     ELSE FillLoop(<< <<x, y>> >>, {}, data, seedPx, fillPx)

(***************************************************************************)
(* The editor and the canvas board.                                        *)
(***************************************************************************)
VARIABLES
  layers,               \* Editor: the ordered layer list (first = bottom)
  activeLayerId,        \* Editor: the layer drawing goes to
  stickerIndex,         \* the active sticker
  canvasRefs,           \* layer id -> the bitmap of that layer's canvas
  gco,                  \* layer id -> globalCompositeOperation of its 2D context
  isDrawing, lastStablePoint, currentHistoryStart,
  undoStack, redoStack,
  canUndo, canRedo,     \* the pair last passed to onHistoryChange
  textPos, isDraggingText,
  pendingImages,        \* imports whose Image has not fired onload yet
  loader,               \* position of the loadData run of the active sticker
  lineWidth,            \* layer id -> lineWidth of its 2D context, in thousandths of a pixel
  mounted,              \* the Editor is on screen (canvasRef.current is set)
  isSaving,             \* Editor: a handleSaveSticker call is waiting on its race
  call,                 \* the handleSaveSticker call that is waiting, with what follows it
  saves,                \* the performSave runs started so far
  store,                \* the layer store: <<stickerIndex, layer id>> -> data URL
  exporter,             \* the exportProjectToZip run: its place in its loops and what it has made
  localStickers,        \* Editor: sticker index -> the thumbnail of that sticker
  handle,               \* the handleSaveComplete the imperative handle's save calls: the
                        \* activeStickerId and localStickers of the render that built the handle
  superseded,           \* the loadData runs of earlier stickers that still await a fetch
                        \* or a decode (active = false)
  db,                   \* IndexedDB as backup and restore see it: the projects store and
                        \* the layers store (key -> data URL)
  backupRun,            \* the backupProject run: its place in its loops and its zip
  downloads,            \* the backup files handed to saveAs
  restored,             \* what the restoreProject calls have returned
  obs,                  \* which observer below is recording (fixed by Init)
  lastOp,               \* observer: the kind of the last handler that ran
  seqObs,               \* observer: a run of operations then undos
  tripObs,              \* observer: a run of undos then redos
  stepObs,              \* observer: the layer contents around the last operation
  clickObs,             \* observer: what the latest pointer-down did
  outObs,               \* observer: the image a compositor call returned last
  loadObs,              \* observer: the steps the stacks held when the sticker changed
  saveObs,              \* observer: the buffers each performSave run found when it began
  viewObs               \* observer: the buffers getPreview last read inside the open stroke

\* project.layers of a project that keeps the colour and the line layer
LayerIds == {"l_color", "l_line"}
ProjectLayers ==
  << [id |-> "l_color", visible |-> TRUE, opacity |-> 100],
     [id |-> "l_line", visible |-> TRUE, opacity |-> 100] >>
Tools == {"brush", "eraser", "fill", "text"}
Stickers == {2, 3}
OffCanvas == <<-1000, -1000>>
Centre == <<Width \div 2, Height \div 2>>

\* inputs of the operations: pointer positions in canvas coordinates, the
\* brush settings the Editor passes down (read at each event), the imported
\* picture, what the store returns
PointerXY == {Centre}
Pressures == {100}
TextBackground == <<15, 11, 11, 15, 2, 4>>
TextBorder == <<15, 15, 15, 15, 15, 15>>
SettingsOf(t, c, o) ==
  [tool |-> t, color |-> c, opacity |-> o, stabilization |-> 0,
   size |-> 1, brushType |-> "pen",
   hasBackground |-> FALSE, backgroundColor |-> TextBackground,
   hasBorder |-> FALSE, borderColor |-> TextBorder, borderWidth |-> 4]
Settings == {SettingsOf(t, Red, 100) : t \in Tools \ {"eraser"}}
Picture == [i \in Pixels |-> IF i = Centre[2] * Width + Centre[1] THEN <<0, 0, 255, 255>> ELSE Transparent]
BadUrl == [mime |-> "data:image/png", w |-> 0, h |-> 0, px |-> <<>>]
StoredUrls == {NULL, ToDataURL(Picture)}
Decodable(url) == url.px # <<>>

Idx(p) == p[2] * Width + p[1]
OnCanvas(p) == p[1] \in 0..(Width - 1) /\ p[2] \in 0..(Height - 1)
\* the pixels a round-capped segment from s to e covers
Covered(s, e) == {Idx(q) : q \in {r \in {s, e} : OnCanvas(r)}}

\* canvasRefs.current[id]?.getContext('2d')
HasCtx(id) == id \in DOMAIN canvasRefs

Push(stack, step) == Append(stack, step)
Top(stack) == stack[Len(stack)]
Pop(stack) == SubSeq(stack, 1, Len(stack) - 1)
HistoryStep(id, before, after) == [layerId |-> id, before |-> before, after |-> after]
Room == Len(undoStack) + Len(redoStack) < MaxHistory

progVars == <<layers, activeLayerId, stickerIndex, canvasRefs, gco,
              isDrawing, lastStablePoint, currentHistoryStart, undoStack, redoStack,
              canUndo, canRedo, textPos, isDraggingText, pendingImages, loader,
              lineWidth, mounted, isSaving, call, saves, store, exporter>>
saveVars == <<mounted, isSaving, call, saves, store, exporter>>
obsVars == <<obs, lastOp, seqObs, tripObs, stepObs, outObs, loadObs, saveObs, viewObs, clickObs>>
editVars == <<localStickers, handle, superseded>>
bakVars == <<db, backupRun, downloads, restored>>
vars == <<progVars, editVars, bakVars, obsVars>>

(***************************************************************************)
(* The compositors: the layers flattened bottom to top into a temporary    *)
(* canvas, each visible one drawn at its opacity.                          *)
(***************************************************************************)
\* a variant of getPreview that draws every layer
RECURSIVE getPreviewOfAllLoop(_, _, _, _)
getPreviewOfAllLoop(ls, refs, i, tctx) ==
  IF i > Len(ls) THEN tctx
  ELSE getPreviewOfAllLoop(ls, refs, i + 1,
                           DrawImage("source-over", tctx, refs[ls[i].id], ls[i].opacity))
getPreviewOfAll(ls, refs) == ToDataURL(getPreviewOfAllLoop(ls, refs, 1, Blank))

\* getPreview: layers.forEach over the live canvases
RECURSIVE getPreviewLoop(_, _, _, _)
getPreviewLoop(ls, refs, i, tctx) ==
  IF i > Len(ls) THEN tctx
  ELSE LET l == ls[i]
       IN getPreviewLoop(ls, refs, i + 1,
                         IF l.visible /\ l.id \in DOMAIN refs
                         THEN DrawImage("source-over", tctx, refs[l.id], l.opacity)
                         ELSE tctx)
getPreview(ls, refs) == ToDataURL(getPreviewLoop(ls, refs, 1, Blank))

\* a variant of exportImage that draws the layers from the top down
RECURSIVE exportImageTopDownLoop(_, _, _, _)
exportImageTopDownLoop(ls, refs, i, tctx) ==
  IF i < 1 THEN tctx
  ELSE exportImageTopDownLoop(ls, refs, i - 1,
                              IF ls[i].visible
                              THEN DrawImage("source-over", tctx, refs[ls[i].id], ls[i].opacity)
                              ELSE tctx)
exportImageTopDown(ls, refs) == ToDataURL(exportImageTopDownLoop(ls, refs, Len(ls), Blank))

\* exportImage: the same loop, the canvas taken as present (canvasRefs.current[l.id]!):
\* drawImage of a missing canvas throws and the promise is rejected
Rejected == "TypeError"
RECURSIVE exportImageLoop(_, _, _, _)
exportImageLoop(ls, refs, i, tctx) ==
  IF i > Len(ls) THEN tctx
  ELSE LET l == ls[i]
       IN exportImageLoop(ls, refs, i + 1,
                          IF l.visible
                          THEN DrawImage("source-over", tctx, refs[l.id], l.opacity)
                          ELSE tctx)
exportImage(ls, refs) ==
  IF \E i \in 1..Len(ls) : ls[i].visible /\ ls[i].id \notin DOMAIN refs THEN Rejected
  ELSE ToDataURL(exportImageLoop(ls, refs, 1, Blank))

\* performSave, step 2: the thumbnail, drawn like the preview
RECURSIVE thumbnailLoop(_, _, _, _)
thumbnailLoop(ls, refs, i, tctx) ==
  IF i > Len(ls) THEN tctx
  ELSE LET l == ls[i]
       IN thumbnailLoop(ls, refs, i + 1,
                        IF l.visible /\ l.id \in DOMAIN refs
                        THEN DrawImage("source-over", tctx, refs[l.id], l.opacity)
                        ELSE tctx)
thumbnail(ls, refs) == ToDataURL(thumbnailLoop(ls, refs, 1, Blank))

\* performSave, step 1: every layer canvas is stored as a data URL
Saved(ls, refs) ==
  [id \in {ls[i].id : i \in 1..Len(ls)} \cap DOMAIN refs |-> ToDataURL(refs[id])]

\* compositeSticker: the layers are read back from the store; a layer with
\* nothing stored, or whose image does not decode, is passed over
RECURSIVE compositeStickerLoop(_, _, _, _)
compositeStickerLoop(ls, saved, i, ctx) ==
  IF i > Len(ls) THEN ctx
  ELSE LET l == ls[i]
           dataUrl == IF l.id \in DOMAIN saved THEN saved[l.id] ELSE NULL
       IN compositeStickerLoop(ls, saved, i + 1,
            IF l.visible /\ dataUrl # NULL /\ dataUrl.mime = "data:image/png" /\ dataUrl.px # <<>>
            THEN DrawImage("source-over", ctx, Decode(dataUrl), l.opacity)
            ELSE ctx)
compositeSticker(ls, saved) == ToDataURL(compositeStickerLoop(ls, saved, 1, Blank))

\* generateThumbnailForSticker: the stored image of every layer id, in order,
\* drawn on a canvas; nothing is returned when no layer has an image stored
RECURSIVE generateThumbnailLoop(_, _, _, _, _)
generateThumbnailLoop(layerIds, saved, i, ctx, hasContent) ==
  IF i > Len(layerIds) THEN IF hasContent THEN ToDataURL(ctx) ELSE NULL
  ELSE LET dataUrl == IF layerIds[i] \in DOMAIN saved THEN saved[layerIds[i]] ELSE NULL
       IN IF dataUrl = NULL
          THEN generateThumbnailLoop(layerIds, saved, i + 1, ctx, hasContent)
          ELSE generateThumbnailLoop(layerIds, saved, i + 1,
                 IF dataUrl.mime = "data:image/png" /\ dataUrl.px # <<>>
                 THEN DrawImage("source-over", ctx, Decode(dataUrl), 100)
                 ELSE ctx,
                 TRUE)
generateThumbnailForSticker(layerIds, saved) ==
  generateThumbnailLoop(layerIds, saved, 1, Blank, FALSE)

(***************************************************************************)
(* Observers.  They record what happened and never constrain the program.  *)
(* Each handler names the kind of step it took: "down" (a stroke begins),  *)
(* "move", "up" (a stroke is committed), "fill" and "tap" (a fill click    *)
(* with and without effect), "commit" (a clear, text bake or import is     *)
(* committed), "undo", "redo" (a step was moved), "select", "layers",      *)
(* "switch", "load", "loaded" (the sticker changes, its load goes on, its   *)
(* load ends), "save" (a performSave run begins), "error" (an import that  *)
(* does not decode is given up), the name of a compositor                  *)
(* for a call that returned an image, and "none" for anything else.        *)
(***************************************************************************)
LastKind(kind) ==
  IF kind \in {"commit", "up", "fill"} THEN "commit"
  ELSE IF kind \in {"undo", "redo", "loaded", "error"} THEN kind
  ELSE "other"

\* a run of committed operations followed by undos, counted from the loaded
\* sticker; the run is dropped when anything else happens, when a stroke is
\* still open at an undo, and when a stroke sees a second pointer-down or a
\* change of the active layer
Dropped == [ok |-> FALSE, base |-> NULL, ops |-> 0, undos |-> 0]
SeqNext(kind) ==
  IF ~seqObs.ok THEN Dropped
  ELSE IF kind \in {"down", "fill", "tap", "select"} /\ isDrawing THEN Dropped
  ELSE IF kind \in {"commit", "up", "fill"}
  THEN IF seqObs.undos = 0 THEN [seqObs EXCEPT !.ops = @ + 1] ELSE Dropped
  ELSE IF kind = "undo"
  THEN IF isDrawing THEN Dropped ELSE [seqObs EXCEPT !.undos = @ + 1]
  ELSE IF kind = "down"
  THEN IF seqObs.undos > 0 THEN Dropped ELSE seqObs
  ELSE IF kind \in {"redo", "layers", "switch", "load", "loaded"} THEN Dropped
  ELSE seqObs

\* a run of undos followed by redos with nothing in between: what the buffers
\* and the stacks were before the first undo.  Sessions in which anything but
\* a move happened while a stroke was open are not watched any further.
Idle == [clean |-> TRUE, pre |-> NULL, undos |-> 0, redos |-> 0]
Unwatched == [clean |-> FALSE, pre |-> NULL, undos |-> 0, redos |-> 0]
TripNext(kind) ==
  IF ~tripObs.clean THEN Unwatched
  ELSE IF isDrawing /\ kind \notin {"move", "up", "none"} THEN Unwatched
  ELSE IF kind = "undo"
  THEN IF tripObs.pre # NULL /\ tripObs.redos = 0
       THEN [tripObs EXCEPT !.undos = @ + 1]
       ELSE [clean |-> TRUE, pre |-> <<canvasRefs, undoStack, redoStack>>,
             undos |-> 1, redos |-> 0]
  ELSE IF kind = "redo"
  THEN IF tripObs.pre # NULL /\ tripObs.redos < tripObs.undos
       THEN [tripObs EXCEPT !.redos = @ + 1]
       ELSE Idle
  ELSE Idle

\* the buffers of all layers at the latest pointer-down of the open stroke,
\* and, right after a commit, the step pushed with the content its own layer
\* had before the operation began and has now
StepNext(kind) ==
  IF kind = "down" THEN [down |-> canvasRefs, last |-> NULL]
  ELSE IF kind = "up"
  THEN LET step == Top(undoStack')
       IN [down |-> NULL,
           last |-> [step |-> step, pre |-> stepObs.down[step.layerId],
                     post |-> canvasRefs'[step.layerId]]]
  ELSE IF kind \in {"commit", "fill"}
  THEN LET step == Top(undoStack')
       IN [down |-> IF kind = "fill" /\ isDrawing THEN canvasRefs ELSE stepObs.down,
           last |-> [step |-> step, pre |-> canvasRefs[step.layerId],
                     post |-> canvasRefs'[step.layerId]]]
  ELSE [down |-> IF kind = "tap" /\ isDrawing THEN canvasRefs ELSE stepObs.down,
        last |-> NULL]

\* what a compositor call returned, with the layer list and the buffers it ran
\* on; for a performSave run that has just returned, its thumbnail
OutNext(kind) ==
  IF \E k \in DOMAIN saves : saves[k].i > 0 /\ saves'[k].i = 0
  THEN LET k == CHOOSE k \in DOMAIN saves : saves[k].i > 0 /\ saves'[k].i = 0
       IN [by |-> "thumbnail", image |-> saves'[k].thumb, layers |-> saves[k].ls,
           refs |-> canvasRefs]
  ELSE IF kind = "getPreview"
  THEN [by |-> kind, image |-> getPreview(layers, canvasRefs), layers |-> layers, refs |-> canvasRefs]
  ELSE IF kind = "exportImage"
  THEN [by |-> kind, image |-> exportImage(layers, canvasRefs), layers |-> layers, refs |-> canvasRefs]
  ELSE IF kind = "compositeSticker"
  THEN [by |-> kind, image |-> compositeSticker(layers, Saved(layers, canvasRefs)),
        layers |-> layers, refs |-> canvasRefs]
  ELSE IF kind = "generateThumbnail"
  THEN [by |-> kind,
        image |-> generateThumbnailForSticker([i \in 1..Len(layers) |-> layers[i].id],
                                              Saved(layers, canvasRefs)),
        layers |-> layers, refs |-> canvasRefs]
  ELSE NULL

\* the steps the stacks held when the active sticker last changed (they sit at
\* the bottom of the stacks until one of them is moved), and whether an undo or
\* a redo has since moved one of them
NotSwitched == [oldUndo |-> 0, oldRedo |-> 0, restored |-> FALSE]
LoadNext(kind) ==
  IF kind = "switch"
  THEN [oldUndo |-> Len(undoStack), oldRedo |-> Len(redoStack), restored |-> FALSE]
  ELSE IF kind = "loaded" THEN NotSwitched
  ELSE IF kind = "undo"
  THEN [loadObs EXCEPT !.restored = @ \/ Len(undoStack) <= loadObs.oldUndo]
  ELSE IF kind = "redo"
  THEN [loadObs EXCEPT !.restored = @ \/ Len(redoStack) <= loadObs.oldRedo]
  ELSE loadObs

\* the buffers getPreview read since the latest pointer-down, while the
\* stroke was open
ViewNext(kind) ==
  IF kind = "getPreview" THEN (IF isDrawing THEN canvasRefs ELSE NULL)
  ELSE IF kind \in {"down", "up"} THEN NULL
  ELSE viewObs

\* what the latest pointer-down did: "down" (began a stroke), "fill" (a flood
\* fill that returned an image), "tap" (a flood fill that returned nothing)
ClickNext(kind) == IF kind \in {"down", "fill", "tap"} THEN kind ELSE clickObs

\* Editor: canvasSize of the active sticker
CanvasSize(s) == IF s = 0 THEN <<240, 240>> ELSE IF s = 1 THEN <<96, 74>> ELSE <<370, 320>>

\* the performSave runs that return in this step (onSaveComplete is called
\* with the thumbnail just before)
Returned ==
  {k \in DOMAIN saves' : saves'[k].i = 0 /\ (k \notin DOMAIN saves \/ saves[k].i > 0)}

\* handleSaveComplete(thumbnail), as the handle has it: the localStickers of
\* the render that built the handle, with the thumbnail on the sticker that
\* was active in that render
handleSaveComplete(thumb) == [handle.stickers EXCEPT ![handle.sid] = thumb]

\* the Editor's sticker list and the handle of the board are followed in the
\* sessions on thumbnails (obs = "thumb"): setLocalStickers when a save
\* returns, and useImperativeHandle building the handle anew in the render
\* after layers, activeLayerId or the canvas size changed
Rendered ==
  /\ localStickers' = IF obs = "thumb" /\ mounted /\ Returned # {}
                      THEN handleSaveComplete(saves'[CHOOSE k \in Returned : TRUE].thumb)
                      ELSE localStickers
  /\ handle' = IF obs = "thumb"
                   /\ <<layers', activeLayerId', CanvasSize(stickerIndex')>>
                        # <<layers, activeLayerId, CanvasSize(stickerIndex)>>
                THEN [sid |-> stickerIndex', stickers |-> localStickers']
                ELSE handle

\* the cleanup of the loadData effect: when the sticker changes while a load
\* is awaiting, that run goes on with active = false (followed in the
\* sessions on superseded loads, obs = "stale"; late counts the awaits it
\* has come back from since)
Superseding ==
  superseded' = IF obs = "stale" /\ stickerIndex' # stickerIndex
                     /\ loader.phase \in {"fetch", "decode"}
                THEN superseded \cup {[sidx |-> stickerIndex, phase |-> loader.phase,
                                       i |-> loader.i, url |-> loader.url, late |-> 0]}
                ELSE superseded

\* the last conjunct of every handler
Observe(kind) ==
  /\ Rendered
  /\ IF kind = "stale" THEN TRUE ELSE Superseding
  /\ UNCHANGED bakVars
  /\ obs' = obs
  /\ lastOp' = IF obs = "last" THEN LastKind(kind) ELSE lastOp
  /\ seqObs' = IF obs = "seq" THEN SeqNext(kind) ELSE seqObs
  /\ tripObs' = IF obs = "trip" THEN TripNext(kind) ELSE tripObs
  /\ stepObs' = IF obs = "step" THEN StepNext(kind) ELSE stepObs
  /\ outObs' = IF obs \in {"comp", "flat"} THEN OutNext(kind) ELSE outObs
  /\ loadObs' = IF obs = "load" THEN LoadNext(kind) ELSE loadObs
  /\ saveObs' = IF obs = "save" /\ kind = "save" THEN Append(saveObs, canvasRefs) ELSE saveObs
  /\ viewObs' = IF obs = "view" THEN ViewNext(kind) ELSE viewObs
  /\ clickObs' = IF obs = "click" THEN ClickNext(kind) ELSE clickObs

onHistoryChange(u, r) == canUndo' = u /\ canRedo' = r

(***************************************************************************)
(* Pointer handlers of the canvas container.                               *)
(***************************************************************************)
\* settings.size * (0.4 + e.pressure * 1.6), the pressure in hundredths and
\* the width in thousandths of a pixel
CalligraphyWidth(size, pressure) == size * (400 + pressure * 16)

\* drawPoint(s, e): one segment on the active layer, under the tool's blending
\* (s and e are positions, pressure the pressure of the Point e); the result is
\* the buffers, the composite operations and the line widths of the contexts
drawPoint(settings, bufs, ops, widths, s, e, pressure) ==
  IF ~HasCtx(activeLayerId) THEN <<bufs, ops, widths>>
  ELSE LET op == IF settings.tool = "eraser" THEN "destination-out" ELSE "source-over"
           ga == IF settings.tool = "eraser" THEN 100 ELSE settings.opacity
           w == IF settings.tool # "eraser" /\ settings.brushType = "calligraphy"
                THEN CalligraphyWidth(settings.size, pressure)
                ELSE settings.size * 1000
       IN << [bufs EXCEPT ![activeLayerId] = Paint(op, @, Covered(s, e), settings.color, ga)],
             [ops EXCEPT ![activeLayerId] = op],
             [widths EXCEPT ![activeLayerId] = w] >>

\* what a pointer event carries into a Point: e.pressure || 0.5
PointOf(e) == [x |-> e.x, y |-> e.y, pressure |-> IF e.pressure = 0 THEN 50 ELSE e.pressure]

\* a variant of Stabilize that pulls past the raw coordinate
StabilizeBeyond(last, raw, s) == last + ((raw - last) * (100 + 8 * s)) \div 100

\* the stabilized coordinate: last + (raw - last) * (1 - s * 0.08)
Stabilize(last, raw, s) == last + ((raw - last) * (100 - 8 * s)) \div 100

\* onPointerDown
startDraw(settings, e) ==
  IF settings.tool = "text" \/ ~HasCtx(activeLayerId)
  THEN /\ UNCHANGED progVars
       /\ Observe("none")
  ELSE IF settings.tool = "fill"
  THEN LET before == canvasRefs[activeLayerId]
           after == floodFill(before, e.x, e.y, settings.color, settings.opacity)
       IN /\ currentHistoryStart' = before
          /\ IF after # NULL
             THEN /\ Room
                  /\ canvasRefs' = [canvasRefs EXCEPT ![activeLayerId] = after]
                  /\ undoStack' = Push(undoStack, HistoryStep(activeLayerId, before, after))
                  /\ onHistoryChange(TRUE, FALSE)
             ELSE UNCHANGED <<canvasRefs, undoStack, canUndo, canRedo>>
          /\ UNCHANGED <<layers, activeLayerId, stickerIndex,
                         gco, isDrawing, lastStablePoint, redoStack, textPos, isDraggingText,
                         pendingImages, loader,
                 lineWidth, saveVars>>
          /\ Observe(IF after # NULL THEN "fill" ELSE "tap")
  ELSE LET p == PointOf(e)
           drawn == drawPoint(settings, canvasRefs, gco, lineWidth, <<p.x, p.y>>, <<p.x, p.y>>,
                              p.pressure)
       IN /\ Room
          /\ currentHistoryStart' = canvasRefs[activeLayerId]
          /\ isDrawing' = TRUE
          /\ lastStablePoint' = p
          /\ canvasRefs' = drawn[1]
          /\ gco' = drawn[2]
          /\ lineWidth' = drawn[3]
          /\ UNCHANGED <<layers, activeLayerId, stickerIndex,
                         undoStack, redoStack, canUndo, canRedo, textPos, isDraggingText,
                         pendingImages, loader, saveVars>>
          /\ Observe("down")

\* onPointerMove
onMove(settings, e) ==
  IF isDraggingText
  THEN /\ textPos' = <<e.x, e.y>>
       /\ UNCHANGED <<layers, activeLayerId, stickerIndex,
                      canvasRefs, gco, isDrawing, lastStablePoint, currentHistoryStart, undoStack,
                      redoStack, canUndo, canRedo, isDraggingText, pendingImages, loader,
                 lineWidth, saveVars>>
       /\ Observe("none")
  ELSE IF ~isDrawing
  THEN /\ UNCHANGED progVars
       /\ Observe("none")
  ELSE LET raw == PointOf(e)
           p == IF settings.stabilization > 0 /\ lastStablePoint # NULL
                THEN [raw EXCEPT !.x = Stabilize(lastStablePoint.x, raw.x, settings.stabilization),
                                 !.y = Stabilize(lastStablePoint.y, raw.y, settings.stabilization)]
                ELSE raw
           drawn == IF lastStablePoint # NULL
                    THEN drawPoint(settings, canvasRefs, gco, lineWidth,
                                   <<lastStablePoint.x, lastStablePoint.y>>, <<p.x, p.y>>, p.pressure)
                    ELSE <<canvasRefs, gco, lineWidth>>
       IN /\ lastStablePoint' = p
          /\ canvasRefs' = drawn[1]
          /\ gco' = drawn[2]
          /\ lineWidth' = drawn[3]
          /\ UNCHANGED <<layers, activeLayerId, stickerIndex,
                         isDrawing, currentHistoryStart, undoStack, redoStack, canUndo, canRedo,
                         textPos, isDraggingText, pendingImages, loader, saveVars>>
          /\ Observe("move")

\* a variant of stopDraw that records a step only when the stroke changed the layer
stopDrawIfChanged ==
  LET commits == /\ isDrawing /\ HasCtx(activeLayerId) /\ currentHistoryStart # NULL
                 /\ canvasRefs[activeLayerId] # currentHistoryStart
  IN /\ isDraggingText' = FALSE
     /\ isDrawing' = FALSE
     /\ IF commits
        THEN /\ Room
             /\ undoStack' = Push(undoStack, HistoryStep(activeLayerId, currentHistoryStart,
                                                         canvasRefs[activeLayerId]))
             /\ onHistoryChange(TRUE, FALSE)
        ELSE UNCHANGED <<undoStack, canUndo, canRedo>>
     /\ UNCHANGED <<layers, activeLayerId, stickerIndex,
                    canvasRefs, gco, lastStablePoint, currentHistoryStart, redoStack, textPos,
                    pendingImages, loader, lineWidth, saveVars>>
     /\ Observe(IF commits THEN "up" ELSE "none")

\* onPointerUp, onPointerLeave
stopDraw ==
  LET commits == isDrawing /\ HasCtx(activeLayerId) /\ currentHistoryStart # NULL
  IN /\ isDraggingText' = FALSE
     /\ isDrawing' = FALSE
     /\ IF commits
        THEN /\ Room
             /\ undoStack' = Push(undoStack, HistoryStep(activeLayerId, currentHistoryStart,
                                                         canvasRefs[activeLayerId]))
             /\ onHistoryChange(TRUE, FALSE)
        ELSE UNCHANGED <<undoStack, canUndo, canRedo>>
     /\ UNCHANGED <<layers, activeLayerId, stickerIndex,
                    canvasRefs, gco, lastStablePoint, currentHistoryStart, redoStack, textPos,
                    pendingImages, loader,
                 lineWidth, saveVars>>
     /\ Observe(IF commits THEN "up" ELSE "none")

(***************************************************************************)
(* The text overlay.                                                       *)
(***************************************************************************)
\* pointer-down on the overlay (shown while tool = text and there is content)
startDragText(settings) ==
  /\ settings.tool = "text"
  /\ isDraggingText' = TRUE
  /\ UNCHANGED <<layers, activeLayerId, stickerIndex,
                 canvasRefs, gco, isDrawing, lastStablePoint, currentHistoryStart, undoStack,
                 redoStack, canUndo, canRedo, textPos, pendingImages, loader,
                 lineWidth, saveVars>>
  /\ Observe("none")

\* the overlay's cancel button
cancelText(settings) ==
  /\ settings.tool = "text"
  /\ textPos' = OffCanvas
  /\ UNCHANGED <<layers, activeLayerId, stickerIndex,
                 canvasRefs, gco, isDrawing, lastStablePoint, currentHistoryStart, undoStack,
                 redoStack, canUndo, canRedo, isDraggingText, pendingImages, loader,
                 lineWidth, saveVars>>
  /\ Observe("none")

\* the overlay's commit button: background rectangle, outline, glyphs
bakeText(settings) ==
  /\ settings.tool = "text"
  /\ IF HasCtx(activeLayerId)
     THEN LET before == canvasRefs[activeLayerId]
              op == gco[activeLayerId]
              area == Covered(textPos, textPos)
              b1 == IF settings.hasBackground THEN Paint(op, before, area, settings.backgroundColor, 100) ELSE before
              b2 == IF settings.hasBorder THEN Paint(op, b1, area, settings.borderColor, 100) ELSE b1
              after == Paint(op, b2, area, settings.color, 100)
          IN /\ Room
             /\ canvasRefs' = [canvasRefs EXCEPT ![activeLayerId] = after]
             /\ lineWidth' = IF settings.hasBorder
                             THEN [lineWidth EXCEPT ![activeLayerId] = settings.borderWidth * 1000]
                             ELSE lineWidth
             /\ undoStack' = Push(undoStack, HistoryStep(activeLayerId, before, after))
             /\ onHistoryChange(TRUE, FALSE)
     ELSE UNCHANGED <<canvasRefs, lineWidth, undoStack, canUndo, canRedo>>
  /\ UNCHANGED <<layers, activeLayerId, stickerIndex, gco,
                 isDrawing, lastStablePoint, currentHistoryStart, redoStack, textPos,
                 isDraggingText, pendingImages, loader, saveVars>>
  /\ Observe(IF HasCtx(activeLayerId) THEN "commit" ELSE "none")

(***************************************************************************)
(* The imperative handle: undo, redo, clearLayer, drawImageOnLayer.        *)
(***************************************************************************)
\* a variant of undo that puts the snapshot into the active layer
undoIntoActiveLayer ==
  IF undoStack # <<>>
  THEN LET step == Top(undoStack)
       IN /\ undoStack' = Pop(undoStack)
          /\ redoStack' = Push(redoStack, step)
          /\ canvasRefs' = [canvasRefs EXCEPT ![activeLayerId] = step.before]
          /\ onHistoryChange(Len(undoStack') > 0, Len(redoStack') > 0)
          /\ UNCHANGED <<layers, activeLayerId, stickerIndex,
                         gco, isDrawing, lastStablePoint, currentHistoryStart, textPos,
                         isDraggingText, pendingImages, loader,
                 lineWidth, saveVars>>
          /\ Observe("undo")
  ELSE /\ UNCHANGED progVars
       /\ Observe("none")

undo ==
  IF undoStack # <<>>
  THEN LET step == Top(undoStack)
       IN /\ undoStack' = Pop(undoStack)
          /\ redoStack' = Push(redoStack, step)
          /\ canvasRefs' = IF HasCtx(step.layerId)
                           THEN [canvasRefs EXCEPT ![step.layerId] = step.before]
                           ELSE canvasRefs
          /\ onHistoryChange(Len(undoStack') > 0, Len(redoStack') > 0)
          /\ UNCHANGED <<layers, activeLayerId, stickerIndex,
                         gco, isDrawing, lastStablePoint, currentHistoryStart, textPos,
                         isDraggingText, pendingImages, loader,
                 lineWidth, saveVars>>
          /\ Observe("undo")
  ELSE /\ UNCHANGED progVars
       /\ Observe("none")

redo ==
  IF redoStack # <<>>
  THEN LET step == Top(redoStack)
       IN /\ redoStack' = Pop(redoStack)
          /\ undoStack' = Push(undoStack, step)
          /\ canvasRefs' = IF HasCtx(step.layerId)
                           THEN [canvasRefs EXCEPT ![step.layerId] = step.after]
                           ELSE canvasRefs
          /\ onHistoryChange(Len(undoStack') > 0, Len(redoStack') > 0)
          /\ UNCHANGED <<layers, activeLayerId, stickerIndex,
                         gco, isDrawing, lastStablePoint, currentHistoryStart, textPos,
                         isDraggingText, pendingImages, loader,
                 lineWidth, saveVars>>
          /\ Observe("redo")
  ELSE /\ UNCHANGED progVars
       /\ Observe("none")

\* a variant of clearLayer that always clears the active layer
clearActiveLayer(id) ==
  /\ HasCtx(activeLayerId)
  /\ Room
  /\ canvasRefs' = [canvasRefs EXCEPT ![activeLayerId] = Blank]
  /\ undoStack' = Push(undoStack, HistoryStep(activeLayerId, canvasRefs[activeLayerId], Blank))
  /\ onHistoryChange(TRUE, Len(redoStack) > 0)
  /\ UNCHANGED <<layers, activeLayerId, stickerIndex, gco, isDrawing, lastStablePoint,
                 currentHistoryStart, redoStack, textPos, isDraggingText, pendingImages, loader,
                 lineWidth, saveVars>>
  /\ Observe("commit")

\* clearLayer(id); id = "" is the call without an argument: id || activeLayerId
clearLayer(id) ==
  LET targetId == IF id # "" THEN id ELSE activeLayerId
  IN IF HasCtx(targetId)
     THEN LET before == canvasRefs[targetId]
          IN /\ Room
             /\ canvasRefs' = [canvasRefs EXCEPT ![targetId] = Blank]
             /\ undoStack' = Push(undoStack, HistoryStep(targetId, before, Blank))
             /\ onHistoryChange(Len(undoStack') > 0, Len(redoStack) > 0)
             /\ UNCHANGED <<layers, activeLayerId, stickerIndex, gco, isDrawing, lastStablePoint,
                            currentHistoryStart, redoStack, textPos, isDraggingText,
                            pendingImages, loader,
                 lineWidth, saveVars>>
             /\ Observe("commit")
     ELSE /\ UNCHANGED progVars
          /\ Observe("none")

\* drawImageOnLayer(id, url): the context is looked up now, the drawing waits for onload
drawImageOnLayer(id, url) ==
  IF HasCtx(id)
  THEN /\ Len(pendingImages) < MaxPending
       /\ pendingImages' = Append(pendingImages, [layerId |-> id, url |-> url])
       /\ UNCHANGED <<layers, activeLayerId, stickerIndex,
                      canvasRefs, gco, isDrawing, lastStablePoint, currentHistoryStart, undoStack,
                      redoStack, canUndo, canRedo, textPos, isDraggingText, loader,
                 lineWidth, saveVars>>
       /\ Observe("none")
  ELSE /\ UNCHANGED progVars
       /\ Observe("none")

\* img.onload of an import (an image that cannot be decoded never fires it)
importOnload(k) ==
  LET job == pendingImages[k]
      before == canvasRefs[job.layerId]
      img == DecodeImage(job.url)
      after == DrawImageAt(gco[job.layerId], before, img, ImportRect(img.w, img.h))
  IN /\ Decodable(job.url)
     /\ Room
     /\ pendingImages' = [i \in 1..(Len(pendingImages) - 1) |->
                            IF i < k THEN pendingImages[i] ELSE pendingImages[i + 1]]
     /\ canvasRefs' = [canvasRefs EXCEPT ![job.layerId] = after]
     /\ undoStack' = Push(undoStack, HistoryStep(job.layerId, before, after))
     /\ onHistoryChange(TRUE, FALSE)
     /\ UNCHANGED <<layers, activeLayerId, stickerIndex,
                    gco, isDrawing, lastStablePoint, currentHistoryStart, redoStack, textPos,
                    isDraggingText, loader,
                 lineWidth, saveVars>>
     /\ Observe("commit")

\* a variant of importOnerror that records a step of no change for the layer
importOnerrorRecords(k) ==
  LET job == pendingImages[k]
  IN /\ ~Decodable(job.url)
     /\ Room
     /\ pendingImages' = [i \in 1..(Len(pendingImages) - 1) |->
                            IF i < k THEN pendingImages[i] ELSE pendingImages[i + 1]]
     /\ undoStack' = Push(undoStack, HistoryStep(job.layerId, canvasRefs[job.layerId],
                                                 canvasRefs[job.layerId]))
     /\ onHistoryChange(TRUE, FALSE)
     /\ UNCHANGED <<layers, activeLayerId, stickerIndex, canvasRefs,
                    gco, isDrawing, lastStablePoint, currentHistoryStart, redoStack, textPos,
                    isDraggingText, loader, lineWidth, saveVars>>
     /\ Observe("error")

\* an import whose bytes do not decode: onerror has no handler
importOnerror(k) ==
  /\ ~Decodable(pendingImages[k].url)
  /\ pendingImages' = [i \in 1..(Len(pendingImages) - 1) |->
                         IF i < k THEN pendingImages[i] ELSE pendingImages[i + 1]]
  /\ UNCHANGED <<layers, activeLayerId, stickerIndex,
                 canvasRefs, gco, isDrawing, lastStablePoint, currentHistoryStart, undoStack,
                 redoStack, canUndo, canRedo, textPos, isDraggingText, loader,
                 lineWidth, saveVars>>
  /\ Observe("error")

(***************************************************************************)
(* Editor controls.                                                        *)
(***************************************************************************)
\* LayerPanel: onSelectLayer = setActiveLayerId
selectLayer(id) ==
  /\ id # activeLayerId
  /\ activeLayerId' = id
  /\ UNCHANGED <<layers, stickerIndex, canvasRefs, gco,
                 isDrawing, lastStablePoint, currentHistoryStart, undoStack, redoStack, canUndo,
                 canRedo, textPos, isDraggingText, pendingImages, loader,
                 lineWidth, saveVars>>
  /\ Observe("select")

\* LayerPanel: onToggleVisibility, onUpdateOpacity, onReorderLayers
onToggleVisibility(id) ==
  /\ layers' = [i \in 1..Len(layers) |->
                  IF layers[i].id = id THEN [layers[i] EXCEPT !.visible = ~@] ELSE layers[i]]
  /\ UNCHANGED <<activeLayerId, stickerIndex, canvasRefs, gco,
                 isDrawing, lastStablePoint, currentHistoryStart, undoStack, redoStack, canUndo,
                 canRedo, textPos, isDraggingText, pendingImages, loader,
                 lineWidth, saveVars>>
  /\ Observe("layers")

onUpdateOpacity(id, opacity) ==
  /\ layers' = [i \in 1..Len(layers) |->
                  IF layers[i].id = id THEN [layers[i] EXCEPT !.opacity = opacity] ELSE layers[i]]
  /\ UNCHANGED <<activeLayerId, stickerIndex, canvasRefs, gco,
                 isDrawing, lastStablePoint, currentHistoryStart, undoStack, redoStack, canUndo,
                 canRedo, textPos, isDraggingText, pendingImages, loader,
                 lineWidth, saveVars>>
  /\ Observe("layers")

\* the start of Array.prototype.splice on an array of len elements: counted
\* from the end when negative
StartOf(start, len) == IF start < 0 THEN Max(len + start, 0) ELSE Min(start, len)

\* newL.splice(from, 1) then newL.splice(to, 0, m), from and to counted from 0
Splice(seq, from, to) ==
  LET at == StartOf(from, Len(seq))
      rest == SubSeq(seq, 1, at) \o SubSeq(seq, at + 2, Len(seq))
      ins == StartOf(to, Len(rest))
  IN IF at < Len(seq)
     THEN SubSeq(rest, 1, ins) \o <<seq[at + 1]>> \o SubSeq(rest, ins + 1, Len(rest))
     ELSE seq

\* layers.findIndex(l => l.id === id): the index counted from 0, -1 when no
\* layer has the id
IndexOfLayer(id) ==
  IF \E i \in 1..Len(layers) : layers[i].id = id
  THEN (CHOOSE i \in 1..Len(layers) : layers[i].id = id) - 1
  ELSE -1

onReorderLayers(d, t) ==
  /\ layers' = Splice(layers, IndexOfLayer(d), IndexOfLayer(t))
  /\ UNCHANGED <<activeLayerId, stickerIndex, canvasRefs, gco,
                 isDrawing, lastStablePoint, currentHistoryStart, undoStack, redoStack, canUndo,
                 canRedo, textPos, isDraggingText, pendingImages, loader,
                 lineWidth, saveVars>>
  /\ Observe("layers")

\* LayerPanel: onAddLayer (the new layer's canvas exists after the render)
onAddLayer(id) ==
  /\ id \notin {layers[i].id : i \in 1..Len(layers)}
  /\ layers' = Append(layers, [id |-> id, visible |-> TRUE, opacity |-> 100])
  /\ activeLayerId' = id
  /\ canvasRefs' = [k \in DOMAIN canvasRefs \cup {id} |->
                      IF k \in DOMAIN canvasRefs THEN canvasRefs[k] ELSE Blank]
  /\ gco' = [k \in DOMAIN gco \cup {id} |-> IF k \in DOMAIN gco THEN gco[k] ELSE "source-over"]
  /\ lineWidth' = [k \in DOMAIN lineWidth \cup {id} |->
                      IF k \in DOMAIN lineWidth THEN lineWidth[k] ELSE 1000]
  /\ UNCHANGED <<stickerIndex, isDrawing, lastStablePoint, currentHistoryStart, undoStack,
                 redoStack, canUndo, canRedo, textPos, isDraggingText, pendingImages, loader,
                 saveVars>>
  /\ Observe("layers")

\* LayerPanel: onDeleteLayer (offered while there is more than one layer); the
\* layer's canvas is unmounted and its ref set to null, activeLayerId stays
onDeleteLayer(id) ==
  /\ Len(layers) > 1
  /\ id \in {layers[i].id : i \in 1..Len(layers)}
  /\ layers' = SelectSeq(layers, LAMBDA l : l.id # id)
  /\ canvasRefs' = [k \in DOMAIN canvasRefs \ {id} |-> canvasRefs[k]]
  /\ gco' = [k \in DOMAIN gco \ {id} |-> gco[k]]
  /\ lineWidth' = [k \in DOMAIN lineWidth \ {id} |-> lineWidth[k]]
  /\ UNCHANGED <<activeLayerId, stickerIndex, isDrawing, lastStablePoint, currentHistoryStart,
                 undoStack, redoStack, canUndo, canRedo, textPos, isDraggingText, pendingImages,
                 loader, saveVars>>
  /\ Observe("layers")

\* LayerPanel: handleDrop on the row of layer targetId, with the text/plain
\* data of the drag
handleDrop(draggedId, targetId) ==
  /\ draggedId # ""
  /\ draggedId # targetId
  /\ onReorderLayers(draggedId, targetId)

\* the preview timer of the Editor: setLivePreview(canvasRef.current.getPreview())
callGetPreview ==
  /\ UNCHANGED progVars
  /\ Observe("getPreview")

\* CanvasHandle.exportImage()
callExportImage ==
  /\ UNCHANGED progVars
  /\ Observe("exportImage")

\* handleExport: the sticker is saved, then compositeSticker reads it back
handleExport ==
  /\ UNCHANGED progVars
  /\ Observe("compositeSticker")

\* generateAllThumbnails, for the active sticker: the project was saved with
\* these layers, and the Editor opened on it reads the sticker back
generateAllThumbnails ==
  /\ UNCHANGED progVars
  /\ Observe("generateThumbnail")

(***************************************************************************)
(* Sticker switch and the loadData effect.                                 *)
(***************************************************************************)
Fetching(i) == [phase |-> "fetch", i |-> i, url |-> NULL]
Decoding(i, url) == [phase |-> "decode", i |-> i, url |-> url]
Loaded == [phase |-> "done", i |-> 0, url |-> NULL]

\* setActiveStickerId(newId) and the effect it triggers: the running load is
\* cancelled (active = false), every canvas is cleared, the first fetch starts
loadData(newIndex) ==
  /\ stickerIndex' = newIndex
  /\ canvasRefs' = [id \in DOMAIN canvasRefs |-> Blank]
  /\ loader' = Fetching(1)

setActiveStickerId(newIndex) ==
  /\ newIndex # stickerIndex
  /\ loadData(newIndex)
  /\ UNCHANGED <<layers, activeLayerId, gco, isDrawing,
                 lastStablePoint, currentHistoryStart, undoStack, redoStack, canUndo, canRedo,
                 textPos, isDraggingText, pendingImages, lineWidth, saveVars>>
  /\ Observe("switch")

\* the loop of loadData after layer i: the next fetch, or the reset of the history
LoadAdvance(i) ==
  IF i < Len(layers)
  THEN /\ loader' = Fetching(i + 1)
       /\ UNCHANGED <<undoStack, redoStack, canUndo, canRedo, textPos>>
  ELSE /\ loader' = Loaded
       /\ undoStack' = <<>>
       /\ redoStack' = <<>>
       /\ onHistoryChange(FALSE, FALSE)
       /\ textPos' = Centre

\* await loadLayerImage(key) returns what the store holds under the key, or null
loadFetched ==
  /\ loader.phase = "fetch"
  /\ LET key == <<stickerIndex, layers[loader.i].id>>
         url == IF key \in DOMAIN store THEN store[key] ELSE NULL
     IN IF url # NULL
        THEN /\ loader' = Decoding(loader.i, url)
             /\ UNCHANGED <<undoStack, redoStack, canUndo, canRedo, textPos>>
        ELSE LoadAdvance(loader.i)
  /\ UNCHANGED <<layers, activeLayerId, stickerIndex,
                 canvasRefs, gco, isDrawing, lastStablePoint, currentHistoryStart,
                 isDraggingText, pendingImages, lineWidth, saveVars>>
  /\ Observe(IF loader' = Loaded THEN "loaded" ELSE "load")

\* img.onload / img.onerror of the layer image, then the loop goes on
loadDecoded ==
  LET id == layers[loader.i].id
  IN /\ loader.phase = "decode"
     /\ canvasRefs' = IF Decodable(loader.url) /\ HasCtx(id)
                      THEN [canvasRefs EXCEPT ![id] = DrawImage(gco[id], @, Decode(loader.url), 100)]
                      ELSE canvasRefs
     /\ LoadAdvance(loader.i)
     /\ UNCHANGED <<layers, activeLayerId, stickerIndex,
                    gco, isDrawing, lastStablePoint, currentHistoryStart, isDraggingText,
                    pendingImages, lineWidth, saveVars>>
     /\ Observe(IF loader' = Loaded THEN "loaded" ELSE "load")

\* a variant of WhenActive that never looks at the flag
Regardless(active, then, else) == then

\* if (active) ... in loadData: what the run does when its effect is still
\* the current one, and otherwise
WhenActive(active, then, else) == IF active THEN then ELSE else

\* await loadLayerImage(key) of a superseded run returns: if (!active) return
supersededFetched(run) ==
  /\ run \in superseded
  /\ run.phase = "fetch"
  /\ superseded' = WhenActive(FALSE, superseded, superseded \ {run})
  /\ UNCHANGED progVars
  /\ Observe("stale")

\* img.onload / img.onerror of a superseded run: the image is drawn only if
\* (active); then its loop goes on to the next await, or ends, where the
\* history is reset only if (active)
supersededDecoded(run) ==
  LET id == layers[run.i].id
      more == run.i < Len(layers)
  IN /\ run \in superseded
     /\ run.phase = "decode"
     /\ canvasRefs' = WhenActive(FALSE,
                         IF Decodable(run.url) /\ HasCtx(id)
                         THEN [canvasRefs EXCEPT ![id] = DrawImage(gco[id], @, Decode(run.url), 100)]
                         ELSE canvasRefs,
                         canvasRefs)
     /\ superseded' = (superseded \ {run}) \cup
                         (IF more
                          THEN {[run EXCEPT !.phase = "fetch", !.i = @ + 1, !.url = NULL,
                                            !.late = 1]}
                          ELSE {})
     /\ undoStack' = IF more THEN undoStack ELSE WhenActive(FALSE, <<>>, undoStack)
     /\ redoStack' = IF more THEN redoStack ELSE WhenActive(FALSE, <<>>, redoStack)
     /\ canUndo' = IF more THEN canUndo ELSE WhenActive(FALSE, FALSE, canUndo)
     /\ canRedo' = IF more THEN canRedo ELSE WhenActive(FALSE, FALSE, canRedo)
     /\ textPos' = IF more THEN textPos ELSE WhenActive(FALSE, Centre, textPos)
     /\ UNCHANGED <<layers, activeLayerId, stickerIndex, gco, isDrawing, lastStablePoint,
                    currentHistoryStart, isDraggingText, pendingImages, loader, lineWidth,
                    saveVars>>
     /\ Observe("stale")

(***************************************************************************)
(* Saving: performSave, and the Editor functions that wait for it.         *)
(***************************************************************************)
\* the loadData run of an unmounted board: active = false, it returns at its next await
Cancelled == [phase |-> "cancelled", i |-> 0, url |-> NULL]

\* the first layer from index i on whose canvas exists (0 when there is none)
NextWrite(ls, refs, i) ==
  IF \E j \in i..Len(ls) : ls[j].id \in DOMAIN refs
  THEN CHOOSE j \in i..Len(ls) :
         ls[j].id \in DOMAIN refs /\ \A m \in i..(j - 1) : ls[m].id \notin DOMAIN refs
  ELSE 0

\* a performSave run (sidx and ls are what it captured when called) that goes
\* on from layer i: it is awaiting saveLayerImage of layer j with the data URL
\* just taken from the live canvas, or, past the last layer, it has drawn the
\* thumbnail from the live canvases and returned it
performSave(sidx, ls, refs, i) ==
  LET j == NextWrite(ls, refs, i)
  IN IF j = 0
     THEN [sidx |-> sidx, ls |-> ls, i |-> 0, url |-> NULL, thumb |-> thumbnail(ls, refs)]
     ELSE [sidx |-> sidx, ls |-> ls, i |-> j, url |-> ToDataURL(refs[ls[j].id]), thumb |-> NULL]

\* project.stickers: main, tab, then the regular stickers
StickerCount == 4
StickerType(s) == IF s = 0 THEN "main" ELSE IF s = 1 THEN "tab" ELSE "regular"

\* the exportProjectToZip run: the sticker s and layer i it is at, the attempt
\* at loading that layer, the canvas of compositeSticker and its
\* hasDrawnContent, the files put in the folder, the stickers warned about
Exporting(phase, ls, s, i, tries, url, ctx, drawn, files, warned) ==
  [phase |-> phase, ls |-> ls, s |-> s, i |-> i, tries |-> tries, url |-> url, ctx |-> ctx,
   hasDrawnContent |-> drawn, files |-> files, warned |-> warned]
NotExporting == Exporting("idle", <<>>, 0, 0, 0, NULL, Blank, FALSE, <<>>, {})

\* exportProjectToZip(project, layers) up to its mandatory pause
exportProjectToZip(ls) == Exporting("pause", ls, 0, 0, 0, NULL, Blank, FALSE, <<>>, {})

\* the first visible layer from index i on (0 when there is none)
NextVisible(ls, i) ==
  IF \E j \in i..Len(ls) : ls[j].visible
  THEN CHOOSE j \in i..Len(ls) : ls[j].visible /\ \A m \in i..(j - 1) : ~ls[m].visible
  ELSE 0

\* compositeSticker of sticker s goes on from layer i: it awaits the image of
\* the next visible layer, or, past the last layer, it returns the data URL
\* of its canvas, warns of a blank regular sticker, the file is put in the
\* folder and the loop of exportProjectToZip goes on with the next sticker
RECURSIVE ExportFrom(_, _, _, _, _)
ExportFrom(e, s, i, ctx, drawn) ==
  LET j == NextVisible(e.ls, i)
      files == [k \in DOMAIN e.files \cup {s} |-> IF k = s THEN ToDataURL(ctx) ELSE e.files[k]]
      warned == IF ~drawn /\ StickerType(s) = "regular" THEN e.warned \cup {s} ELSE e.warned
  IN IF j # 0
     THEN Exporting("fetch", e.ls, s, j, 1, NULL, ctx, drawn, e.files, e.warned)
     ELSE IF s + 1 < StickerCount
     THEN ExportFrom([e EXCEPT !.files = files, !.warned = warned], s + 1, 1, Blank, FALSE)
     ELSE Exporting("done", e.ls, s, 0, 0, NULL, ctx, drawn, files, warned)

\* handleSaveSticker up to its await, for the caller that goes on with what
Waiting(what, newIndex) ==
  /\ Len(saves) < (IF obs = "thumb" THEN MaxThumbSaves ELSE MaxSaves)
  /\ isSaving' = TRUE
  /\ saves' = Append(saves, performSave(stickerIndex, layers, canvasRefs, 1))
  /\ call' = [then |-> what, newIndex |-> newIndex, save |-> Len(saves) + 1]

\* the race of handleSaveSticker is won: setIsSaving(false), then the caller
\* goes on: switchSticker with setActiveStickerId(newId), handleExport with
\* exportProjectToZip
Settle ==
  /\ isSaving' = FALSE
  /\ call' = NULL
  /\ IF call.then = "switch" /\ mounted /\ call.newIndex # stickerIndex
     THEN loadData(call.newIndex)
     ELSE UNCHANGED <<stickerIndex, canvasRefs, loader>>
  /\ exporter' = IF call.then = "export" THEN exportProjectToZip(saves[call.save].ls)
                 ELSE exporter
Switches == call.then = "switch" /\ mounted /\ call.newIndex # stickerIndex

\* Editor: switchSticker(newId)
switchSticker(newIndex) ==
  /\ mounted
  /\ IF newIndex = stickerIndex \/ isSaving
     THEN /\ UNCHANGED progVars
          /\ Observe("none")
     ELSE /\ Waiting("switch", newIndex)
          /\ UNCHANGED <<layers, activeLayerId, stickerIndex, canvasRefs, gco, isDrawing,
                         lastStablePoint, currentHistoryStart, undoStack, redoStack, canUndo,
                         canRedo, textPos, isDraggingText, pendingImages, loader, lineWidth,
                         mounted, store, exporter>>
          /\ Observe("save")

\* Editor: handleExport, whose button is disabled while isSaving (one export
\* runs at a time)
handleExportClick ==
  /\ mounted
  /\ ~isSaving
  /\ exporter.phase \in {"idle", "done"}
  /\ Waiting("export", stickerIndex)
  /\ UNCHANGED <<layers, activeLayerId, stickerIndex, canvasRefs, gco, isDrawing,
                 lastStablePoint, currentHistoryStart, undoStack, redoStack, canUndo,
                 canRedo, textPos, isDraggingText, pendingImages, loader, lineWidth,
                 mounted, store, exporter>>
  /\ Observe("save")

\* a variant of the timer that never fires
noTimeout == call # NULL /\ FALSE /\ UNCHANGED vars

\* the 500 ms timer of handleSaveSticker fires before the save has returned
saveTimeout ==
  /\ call # NULL
  /\ Settle
  /\ UNCHANGED <<layers, activeLayerId, gco, isDrawing, lastStablePoint, currentHistoryStart,
                 undoStack, redoStack, canUndo, canRedo, textPos, isDraggingText,
                 pendingImages, lineWidth, mounted, saves, store>>
  /\ Observe(IF Switches THEN "switch" ELSE "none")

\* saveLayerImage of run k resolves: the layer is in the store and the loop of
\* performSave goes on; when the run returns, the race it was in is won
saveLayerStored(k) ==
  LET run == saves[k]
      after == performSave(run.sidx, run.ls, canvasRefs, run.i + 1)
      returns == after.i = 0 /\ call # NULL /\ call.save = k
  IN /\ run.i > 0
     /\ store' = [key \in DOMAIN store \cup {<<run.sidx, run.ls[run.i].id>>} |->
                    IF key = <<run.sidx, run.ls[run.i].id>> THEN run.url ELSE store[key]]
     /\ saves' = [saves EXCEPT ![k] = after]
     /\ IF returns THEN Settle
        ELSE UNCHANGED <<isSaving, call, stickerIndex, canvasRefs, loader, exporter>>
     /\ UNCHANGED <<layers, activeLayerId, gco, isDrawing, lastStablePoint, currentHistoryStart,
                    undoStack, redoStack, canUndo, canRedo, textPos, isDraggingText,
                    pendingImages, lineWidth, mounted>>
     /\ Observe(IF returns /\ Switches THEN "switch" ELSE "none")

\* the 500 ms pause of exportProjectToZip is over: compositeSticker of the
\* first sticker begins
exportPaused ==
  /\ exporter.phase = "pause"
  /\ exporter' = ExportFrom(exporter, 0, 1, Blank, FALSE)
  /\ UNCHANGED <<layers, activeLayerId, stickerIndex, canvasRefs, gco, isDrawing,
                 lastStablePoint, currentHistoryStart, undoStack, redoStack, canUndo,
                 canRedo, textPos, isDraggingText, pendingImages, loader, lineWidth,
                 mounted, isSaving, call, saves, store>>
  /\ Observe("none")

\* compositeSticker: await loadLayerImage(key) returns; after an empty first
\* answer it waits 100 ms and loads once more
exportFetched ==
  LET e == exporter
      key == <<e.s, e.ls[e.i].id>>
      dataUrl == IF key \in DOMAIN store THEN store[key] ELSE NULL
  IN /\ e.phase = "fetch"
     /\ exporter' = IF dataUrl = NULL /\ e.tries = 1 THEN [e EXCEPT !.tries = 2]
                    ELSE IF dataUrl # NULL /\ dataUrl.mime = "data:image/png"
                    THEN [e EXCEPT !.phase = "decode", !.url = dataUrl]
                    ELSE ExportFrom(e, e.s, e.i + 1, e.ctx, e.hasDrawnContent)
     /\ UNCHANGED <<layers, activeLayerId, stickerIndex, canvasRefs, gco, isDrawing,
                    lastStablePoint, currentHistoryStart, undoStack, redoStack, canUndo,
                    canRedo, textPos, isDraggingText, pendingImages, loader, lineWidth,
                    mounted, isSaving, call, saves, store>>
     /\ Observe("none")

\* compositeSticker: img.onload draws the layer and sets hasDrawnContent,
\* img.onerror only resolves
exportDecoded ==
  LET e == exporter
      l == e.ls[e.i]
  IN /\ e.phase = "decode"
     /\ exporter' = IF Decodable(e.url)
                    THEN ExportFrom(e, e.s, e.i + 1,
                                    DrawImage("source-over", e.ctx, Decode(e.url), l.opacity), TRUE)
                    ELSE ExportFrom(e, e.s, e.i + 1, e.ctx, e.hasDrawnContent)
     /\ UNCHANGED <<layers, activeLayerId, stickerIndex, canvasRefs, gco, isDrawing,
                    lastStablePoint, currentHistoryStart, undoStack, redoStack, canUndo,
                    canRedo, textPos, isDraggingText, pendingImages, loader, lineWidth,
                    mounted, isSaving, call, saves, store>>
     /\ Observe("none")

\* Editor: handleGoBack.  onBack() takes the Editor off the screen once the
\* handler has returned: save() has begun by then, and every canvas ref is
\* set to null before its first await resolves
handleGoBack ==
  /\ mounted
  /\ Len(saves) < MaxSaves
  /\ saves' = Append(saves, performSave(stickerIndex, layers, canvasRefs, 1))
  /\ mounted' = FALSE
  /\ canvasRefs' = <<>>
  /\ loader' = IF loader = Loaded THEN loader ELSE Cancelled
  /\ UNCHANGED <<layers, activeLayerId, stickerIndex, gco, isDrawing, lastStablePoint,
                 currentHistoryStart, undoStack, redoStack, canUndo, canRedo, textPos,
                 isDraggingText, pendingImages, lineWidth, isSaving, call, store, exporter>>
  /\ Observe("save")

(***************************************************************************)
(* The editor as opened on a sticker: blank canvases, the load under way.  *)
(***************************************************************************)
PointerEvents == {[x |-> p[1], y |-> p[2], pressure |-> pr] : p \in PointerXY, pr \in Pressures}

\* the store of a sticker whose layers were saved with these buffers (a layer
\* never drawn on has no entry)
StoreOf(sidx, refs) ==
  [k \in {<<sidx, id>> : id \in {i \in DOMAIN refs : refs[i] # Blank}} |-> ToDataURL(refs[k[2]])]

\* the editor just opened on a sticker: blank canvases, loadData under way
InitMount ==
  /\ layers = ProjectLayers
  /\ activeLayerId = "l_line"
  /\ stickerIndex = 2
  /\ canvasRefs = [id \in LayerIds |-> Blank]
  /\ gco = [id \in LayerIds |-> "source-over"]
  /\ isDrawing = FALSE
  /\ lastStablePoint = NULL
  /\ currentHistoryStart = NULL
  /\ undoStack = <<>>
  /\ redoStack = <<>>
  /\ canUndo = FALSE
  /\ canRedo = FALSE
  /\ textPos = Centre
  /\ isDraggingText = FALSE
  /\ pendingImages = <<>>
  /\ loader = Fetching(1)
  /\ lineWidth = [id \in LayerIds |-> 1000]
  /\ mounted = TRUE
  /\ isSaving = FALSE
  /\ call = NULL
  /\ saves = <<>>
  /\ exporter = NotExporting
  /\ store = StoreOf(stickerIndex, canvasRefs)

\* the editor once loadData has finished on an untouched board: each layer
\* shows what the store held for it, the history is empty
InitLoaded ==
  /\ layers = ProjectLayers
  /\ activeLayerId = "l_line"
  /\ stickerIndex = 2
  /\ canvasRefs \in {[id \in LayerIds |-> Blank], [id \in LayerIds |-> IF id = "l_color" THEN Picture ELSE Blank]}
  /\ gco = [id \in LayerIds |-> "source-over"]
  /\ isDrawing = FALSE
  /\ lastStablePoint = NULL
  /\ currentHistoryStart = NULL
  /\ undoStack = <<>>
  /\ redoStack = <<>>
  /\ canUndo = FALSE
  /\ canRedo = FALSE
  /\ textPos = Centre
  /\ isDraggingText = FALSE
  /\ pendingImages = <<>>
  /\ loader = Loaded
  /\ lineWidth = [id \in LayerIds |-> 1000]
  /\ mounted = TRUE
  /\ isSaving = FALSE
  /\ call = NULL
  /\ saves = <<>>
  /\ exporter = NotExporting
  /\ store = StoreOf(stickerIndex, canvasRefs)

(***************************************************************************)
(* The stores of services/db.ts as backup and restore use them.  A string  *)
(* that is cut at "_" is kept as the sequence of its pieces: "l_color" is  *)
(* <<"l", "color">>, and the template `${a}_${b}` is a \o b.               *)
(***************************************************************************)
\* s.split("_") for the ids of the program: layer ids are "l_draft",
\* "l_color", "l_line" and `l_${Date.now()}`; a project id is a UUID
Split(s) ==
  CASE s = "l_draft" -> <<"l", "draft">>
    [] s = "l_color" -> <<"l", "color">>
    [] s = "l_line" -> <<"l", "line">>
    [] s = "l_new" -> <<"l", "new">>
    [] OTHER -> <<s>>

\* `${pid}_${sidx}_${layerId}`
LayerKey(pid, sidx, layerId) == Split(pid) \o <<ToString(sidx)>> \o Split(layerId)

\* the padding character "=" of base64, after the 64 digits 0..63
Pad == 64

\* base64 of at most three bytes, and back
Base64(bytes) ==
  LET n == Len(bytes)
      b(i) == IF i <= n THEN bytes[i] ELSE 0
  IN IF n = 0 THEN <<>>
     ELSE << b(1) \div 4,
             (b(1) % 4) * 16 + b(2) \div 16,
             IF n >= 2 THEN (b(2) % 16) * 4 + b(3) \div 64 ELSE Pad,
             IF n >= 3 THEN b(3) % 64 ELSE Pad >>
FromBase64(str) ==
  IF str = <<>> THEN <<>>
  ELSE LET b1 == str[1] * 4 + str[2] \div 16
           b2 == (str[2] % 16) * 16 + (str[3] % Pad) \div 4
           b3 == (str[3] % 4) * 64 + (str[4] % Pad)
       IN IF str[3] = Pad THEN <<b1>> ELSE IF str[4] = Pad THEN <<b1, b2>> ELSE <<b1, b2, b3>>

\* canvas.toDataURL('image/png') of a canvas whose PNG file is bytes: the
\* text before the comma and the text after it
PngUrl(bytes) == <<"data:image/png;base64", Base64(bytes)>>
\* two PNG files, by their (first) bytes
PngA == <<137, 80, 78>>
PngB == <<137, 80>>

\* the default layers of a project saved without a layer list
DefaultLayers ==
  << [id |-> "l_draft", visible |-> TRUE, opacity |-> 50],
     [id |-> "l_color", visible |-> TRUE, opacity |-> 100],
     [id |-> "l_line", visible |-> TRUE, opacity |-> 100] >>

\* Dashboard handleCreate: a project of StickerCount stickers; layers is
\* absent until the first save in the editor
StickerId(i) == IF i = 0 THEN "main" ELSE IF i = 1 THEN "tab" ELSE "sticker"
NewProject(id, hasLayers, ls) ==
  [id |-> id, name |-> <<"Set">>, updatedAt |-> 0,
   stickers |-> [i \in 1..StickerCount |-> [id |-> StickerId(i - 1), index |-> i - 3]],
   hasLayers |-> hasLayers, layers |-> ls]

\* the layers store of project pid in which the stickers of saved have all
\* the layers of ls stored, every image being the PNG bytes
StoredFor(pid, ls, saved, bytes) ==
  LET keys == {LayerKey(pid, sidx, ls[j].id) : sidx \in saved, j \in 1..Len(ls)}
  IN [k \in keys |-> PngUrl(bytes)]

\* the database before a backup: one project, without a layer list or with
\* the colour, line and an added layer, some of its stickers saved
Databases ==
  {[projects |-> {NewProject("p1", TRUE, ls)}, layers |-> StoredFor("p1", ls, saved, PngA)] :
     ls \in {ProjectLayers, Append(ProjectLayers, [id |-> "l_new", visible |-> TRUE, opacity |-> 100])},
     saved \in {{}, {2}, {0, 2}, {0, 1, 2, 3}}}
    \cup
  {[projects |-> {NewProject("p1", FALSE, <<>>)},
    layers |-> StoredFor("p1", DefaultLayers, saved, PngA)] : saved \in {{2}, {1, 3}}}

NotBackingUp == [phase |-> "idle"]
NoRestore == [calls |-> 0, ok |-> FALSE]

\* what each observer holds before anything has happened
InitObs(mode) ==
  /\ obs = mode
  /\ lastOp = IF mode = "last" THEN "loaded" ELSE NULL
  /\ seqObs = IF mode = "seq" THEN [ok |-> TRUE, base |-> canvasRefs, ops |-> 0, undos |-> 0]
              ELSE NULL
  /\ tripObs = IF mode = "trip" THEN Idle ELSE NULL
  /\ stepObs = IF mode = "step" THEN [down |-> NULL, last |-> NULL] ELSE NULL
  /\ outObs = NULL
  /\ loadObs = IF mode = "load" THEN NotSwitched ELSE NULL
  /\ saveObs = IF mode = "save" THEN <<>> ELSE NULL
  /\ viewObs = NULL
  /\ clickObs = IF mode = "click" THEN "none" ELSE NULL
  /\ localStickers = IF mode = "thumb" THEN [s \in Stickers |-> NULL] ELSE NULL
  /\ handle = IF mode = "thumb" THEN [sid |-> stickerIndex, stickers |-> localStickers] ELSE NULL
  /\ superseded = {}
  /\ IF mode = "backup" THEN db \in Databases ELSE db = NULL
  /\ backupRun = NotBackingUp
  /\ downloads = <<>>
  /\ restored = NoRestore

Init == InitLoaded /\ InitObs("last")

\* an editing session on the loaded sticker
Next ==
  \/ \E st \in Settings, e \in PointerEvents : startDraw(st, e)
  \/ \E st \in Settings, e \in PointerEvents : onMove(st, e)
  \/ stopDraw
  \/ \E st \in Settings : bakeText(st)
  \/ undo
  \/ redo
  \/ \E id \in LayerIds \cup {""} : clearLayer(id)
  \/ drawImageOnLayer(activeLayerId, ToDataURL(Picture))
  \/ \E k \in 1..Len(pendingImages) : importOnload(k)
  \/ \E id \in LayerIds : selectLayer(id)

Spec == Init /\ [][Next]_vars

\* the same session watched by the other observers
InitSeq == InitLoaded /\ InitObs("seq")
SpecSeq == InitSeq /\ [][Next]_vars

InitTrip == InitLoaded /\ InitObs("trip")
SpecTrip == InitTrip /\ [][Next]_vars

InitStep == InitLoaded /\ InitObs("step")
SpecStep == InitStep /\ [][Next]_vars

(***************************************************************************)
(* The history: properties.                                                *)
(***************************************************************************)
\* C1: after a sticker load, N >= 1 committed operations followed by N undos
\* leave every layer buffer as it was before the sequence, and canUndo is
\* reported false.  (The run watched has one pointer and no change of the
\* active layer inside a stroke.)
UndoRestoresAll ==
  (seqObs.ok /\ seqObs.ops >= 1 /\ seqObs.undos = seqObs.ops)
    => (canvasRefs = seqObs.base /\ ~canUndo)

\* C2: N undos followed by N redos, nothing in between, leave every layer
\* buffer and both stacks as they were before the first undo.
UndoRedoRoundTrip ==
  (tripObs.pre # NULL /\ tripObs.redos = tripObs.undos)
    => <<canvasRefs, undoStack, redoStack>> = tripObs.pre

\* C3: a mutating operation committed after an undo leaves the redo stack
\* empty (so that a following redo finds nothing to move).
CommitClearsRedo == lastOp = "commit" => redoStack = <<>>

\* C4: after every operation that pushes or pops a history stack, the pair
\* last reported through onHistoryChange is (undo stack non-empty, redo stack
\* non-empty).
ReportedMatchesStacks ==
  lastOp \in {"commit", "undo", "redo", "loaded"}
    => (canUndo = (undoStack # <<>>) /\ canRedo = (redoStack # <<>>))

\* C5: undo (redo) on an empty undo (redo) stack changes no buffer and no
\* stack; otherwise it moves exactly the top step to the other stack and
\* writes the step's before (after) snapshot into the step's layer, every
\* other layer buffer staying as it was.
UndoEffect ==
  IF undoStack = <<>> THEN UNCHANGED <<canvasRefs, undoStack, redoStack>>
  ELSE LET step == undoStack[Len(undoStack)]
       IN /\ undoStack' = SubSeq(undoStack, 1, Len(undoStack) - 1)
          /\ redoStack' = redoStack \o <<step>>
          /\ canvasRefs'[step.layerId] = step.before
          /\ \A id \in DOMAIN canvasRefs \ {step.layerId} : canvasRefs'[id] = canvasRefs[id]

RedoEffect ==
  IF redoStack = <<>> THEN UNCHANGED <<canvasRefs, undoStack, redoStack>>
  ELSE LET step == redoStack[Len(redoStack)]
       IN /\ redoStack' = SubSeq(redoStack, 1, Len(redoStack) - 1)
          /\ undoStack' = undoStack \o <<step>>
          /\ canvasRefs'[step.layerId] = step.after
          /\ \A id \in DOMAIN canvasRefs \ {step.layerId} : canvasRefs'[id] = canvasRefs[id]

UndoRedoMoveTopStep == [][(undo => UndoEffect) /\ (redo => RedoEffect)]_vars

\* an undo has just put a step of one layer back while the other layer holds
\* paint and the undo stack still holds a step
UndoneOneLayer ==
  /\ lastOp = "undo"
  /\ undoStack # <<>>
  /\ canvasRefs[Top(redoStack).layerId] = Top(redoStack).before
  /\ Top(redoStack).before # Top(redoStack).after
  /\ Top(redoStack).layerId # activeLayerId
  /\ canvasRefs[activeLayerId] # Blank

\* C6: the step just pushed holds, as before, what its own layer held when
\* the operation began and, as after, what that layer holds now; also when
\* the active layer changed between pointer-down and pointer-up.
StepSnapshotsOwnLayer ==
  stepObs.last # NULL
    => (stepObs.last.step.before = stepObs.last.pre /\ stepObs.last.step.after = stepObs.last.post)

(***************************************************************************)
(* The fill tool on one layer.                                             *)
(***************************************************************************)
\* layer contents the fill is tried on: transparent pixels and pixels of two
\* faint greys, 40 alpha steps apart
Faint == <<0, 0, 0, 40>>
Dim == <<0, 0, 0, 80>>
FillPalette == {Transparent, Faint, Dim}
\* opaque red, and black at opacity 0.16 (alpha floor(0.16 * 255) = 40)
FillSettings == {SettingsOf("fill", Red, 100), SettingsOf("fill", Black, 16)}
\* getCoords of a pointer-down on the container: a point of the canvas
FillEvents ==
  {[x |-> x, y |-> y, pressure |-> 100] : x \in 0..(Width - 1), y \in 0..(Height - 1)}

\* steps already on the undo stack: clearLayer("l_color") pressed on the
\* empty colour layer, leaving room for one more step
EarlierSteps == [i \in 1..(MaxHistory - 1) |-> HistoryStep("l_color", Blank, Blank)]

\* the loaded editor with some content on the line layer
InitFill ==
  /\ layers = ProjectLayers
  /\ activeLayerId = "l_line"
  /\ stickerIndex = 2
  /\ \E b \in [Pixels -> FillPalette] :
       canvasRefs = [id \in LayerIds |-> IF id = "l_line" THEN b ELSE Blank]
  /\ gco = [id \in LayerIds |-> "source-over"]
  /\ isDrawing = FALSE
  /\ lastStablePoint = NULL
  /\ currentHistoryStart = NULL
  /\ undoStack = EarlierSteps
  /\ redoStack = <<>>
  /\ canUndo = (Len(EarlierSteps) > 0)
  /\ canRedo = FALSE
  /\ textPos = Centre
  /\ isDraggingText = FALSE
  /\ pendingImages = <<>>
  /\ loader = Loaded
  /\ lineWidth = [id \in LayerIds |-> 1000]
  /\ mounted = TRUE
  /\ isSaving = FALSE
  /\ call = NULL
  /\ saves = <<>>
  /\ exporter = NotExporting
  /\ store = StoreOf(stickerIndex, canvasRefs)
  /\ InitObs("fill")

NextFill ==
  \/ \E st \in FillSettings, e \in FillEvents : startDraw(st, e)
  \/ undo
  \/ redo

SpecFill == InitFill /\ [][NextFill]_vars

(***************************************************************************)
(* The fill tool: properties.                                              *)
(***************************************************************************)
\* the colour a fill click writes: the hex colour with alpha floor(opacity * 255)
FillColour(st) ==
  <<st.color[1] * 16 + st.color[2], st.color[3] * 16 + st.color[4],
    st.color[5] * 16 + st.color[6], (st.opacity * 255) \div 100>>

\* every channel of p is within 40 of the same channel of s
Tolerant(p, s) == \A k \in 1..4 : p[k] - s[k] <= 40 /\ s[k] - p[k] <= 40

\* pixels i and j share an edge
Adjacent(i, j) ==
  \/ i \div Width = j \div Width /\ (i - j = 1 \/ j - i = 1)
  \/ i % Width = j % Width /\ (i - j = Width \/ j - i = Width)

\* the 4-connected component of the seed among the pixels tolerant to s
RECURSIVE Grow(_, _, _)
Grow(region, data, s) ==
  LET more == {j \in Pixels \ region :
                 Tolerant(data[j], s) /\ \E i \in region : Adjacent(i, j)}
  IN IF more = {} THEN region ELSE Grow(region \cup more, data, s)

Component(data, seed) == Grow({seed}, data, data[seed])

OutsideSeeds == {<<Width, 0>>, <<-1, 1>>, <<0, Height>>, <<0, -1>>}

\* C8: a fill changes no pixel that differs from the seed pixel's original
\* value by more than 40 in some channel, and no pixel outside the seed's
\* 4-connected component of tolerant pixels; from a seed outside the canvas
\* it changes nothing.
FillNeverBleeds ==
  [][/\ \A st \in FillSettings, e \in FillEvents :
          startDraw(st, e) =>
            LET data == canvasRefs[activeLayerId]
                seed == Idx(<<e.x, e.y>>)
            IN \A i \in Pixels :
                 canvasRefs'[activeLayerId][i] # data[i]
                   => (Tolerant(data[i], data[seed]) /\ i \in Component(data, seed))
     /\ \A st \in FillSettings, p \in OutsideSeeds :
          LET data == canvasRefs[activeLayerId]
              out == floodFill(data, p[1], p[2], st.color, st.opacity)
          IN out = NULL \/ out = data]_vars

\* a fill recoloured part of the line layer and went round a Dim pixel next to it
FilledAroundDim ==
  /\ Len(undoStack) = MaxHistory
  /\ canvasRefs["l_line"] = Top(undoStack).after
  /\ \E i, j \in Pixels :
       /\ Adjacent(i, j)
       /\ Top(undoStack).before[i] = Dim /\ Top(undoStack).after[i] = Dim
       /\ Top(undoStack).before[j] = Transparent /\ Top(undoStack).after[j] = Faint

\* C9: a fill click on a seed that differs from the fill colour overwrites
\* with the fill colour and alpha exactly the seed's 4-connected component of
\* pixels within 40 of the seed's original value, judged on the buffer before
\* the fill; on an all-transparent buffer that is every pixel.
FillCoversComponent ==
  [][\A st \in FillSettings, e \in FillEvents :
       LET data == canvasRefs[activeLayerId]
           seed == Idx(<<e.x, e.y>>)
       IN (startDraw(st, e) /\ data[seed] # FillColour(st)) =>
            /\ canvasRefs'[activeLayerId] =
                 [i \in Pixels |-> IF i \in Component(data, seed) THEN FillColour(st) ELSE data[i]]
            /\ data = Blank => canvasRefs'[activeLayerId] = [i \in Pixels |-> FillColour(st)]
            /\ Top(undoStack') = HistoryStep(activeLayerId, data, canvasRefs'[activeLayerId])]_vars

\* the all-transparent line layer was filled with opaque red, every pixel
FilledBlankLayer ==
  /\ Len(undoStack) = MaxHistory
  /\ Top(undoStack).before = Blank
  /\ canvasRefs["l_line"] = [i \in Pixels |-> <<255, 0, 0, 255>>]
  /\ canUndo /\ ~canRedo

(***************************************************************************)
(* The layer panel and the compositors.                                    *)
(***************************************************************************)
\* layer contents: the picture, an opaque red wash, a half-transparent green veil
RedWash == [i \in Pixels |-> <<255, 0, 0, 255>>]
GreenVeil == [i \in Pixels |-> <<0, 255, 0, 128>>]
CompBuffers == {Picture, RedWash, GreenVeil}
\* positions of the opacity slider, in hundredths
Opacities == {50, 100}
NewLayerId == "l_new"

\* the loaded editor with content on both default layers
InitComp ==
  /\ layers = ProjectLayers
  /\ activeLayerId = "l_line"
  /\ stickerIndex = 2
  /\ canvasRefs \in {[l_color |-> RedWash, l_line |-> GreenVeil],
                     [l_color |-> GreenVeil, l_line |-> Picture]}
  /\ gco = [id \in LayerIds |-> "source-over"]
  /\ isDrawing = FALSE
  /\ lastStablePoint = NULL
  /\ currentHistoryStart = NULL
  /\ undoStack = <<>>
  /\ redoStack = <<>>
  /\ canUndo = FALSE
  /\ canRedo = FALSE
  /\ textPos = Centre
  /\ isDraggingText = FALSE
  /\ pendingImages = <<>>
  /\ loader = Loaded
  /\ lineWidth = [id \in LayerIds |-> 1000]
  /\ mounted = TRUE
  /\ isSaving = FALSE
  /\ call = NULL
  /\ saves = <<>>
  /\ exporter = NotExporting
  /\ store = StoreOf(stickerIndex, canvasRefs)
  /\ InitObs("comp")

NextComp ==
  \/ onAddLayer(NewLayerId)
  \/ \E id \in DOMAIN canvasRefs : onToggleVisibility(id)
  \/ \E id \in DOMAIN canvasRefs, o \in Opacities : onUpdateOpacity(id, o)
  \/ \E d \in DOMAIN canvasRefs, t \in DOMAIN canvasRefs : onReorderLayers(d, t)
  \/ callGetPreview
  \/ callExportImage
  \/ handleExport

SpecComp == InitComp /\ [][NextComp]_vars

(***************************************************************************)
(* The compositors: properties.                                            *)
(***************************************************************************)
\* the visible layers of a list, in order, each with its opacity and content
VisiblePart(ls, refs) ==
  LET IsVisible(l) == l.visible
      vis == SelectSeq(ls, IsVisible)
  IN [i \in 1..Len(vis) |-> <<vis[i].id, vis[i].opacity, refs[vis[i].id]>>]

\* the layer lists and buffers that differ from (ls, refs) only in the
\* positions, opacities and contents of the invisible layers
Rearranged(ls, refs) ==
  LET n == Len(ls)
      perms == {p \in [1..n -> 1..n] : \A i, j \in 1..n : p[i] = p[j] => i = j}
      lists == {[i \in 1..n |-> IF ls[p[i]].visible THEN ls[p[i]]
                                ELSE [ls[p[i]] EXCEPT !.opacity = o[i]]] :
                  p \in perms, o \in [1..n -> Opacities]}
      bufs == {r \in [DOMAIN refs -> CompBuffers \cup {Blank}] :
                 \A i \in 1..n : ls[i].visible => r[ls[i].id] = refs[ls[i].id]}
  IN {c \in lists \X bufs : VisiblePart(c[1], c[2]) = VisiblePart(ls, refs)}

\* the compositor named by, run on a layer list and buffers
Flattened(by, ls, refs) ==
  IF by = "getPreview" THEN getPreview(ls, refs)
  ELSE IF by = "exportImage" THEN exportImage(ls, refs)
  ELSE IF by = "thumbnail" THEN thumbnail(ls, refs)
  ELSE compositeSticker(ls, Saved(ls, refs))

\* C10: the image a compositor returned is the image it returns for every
\* layer list that differs only in the positions, opacities or contents of
\* invisible layers.
InvisibleLayersContributeNothing ==
  outObs # NULL =>
    \A c \in Rearranged(outObs.layers, outObs.refs) :
      Flattened(outObs.by, c[1], c[2]) = outObs.image

\* the preview was taken while a hidden layer with content sat between two
\* visible layers, and it shows something
PreviewedOverHiddenLayer ==
  /\ outObs # NULL
  /\ outObs.by = "getPreview"
  /\ Len(outObs.layers) = 3
  /\ outObs.layers[1].visible /\ ~outObs.layers[2].visible /\ outObs.layers[3].visible
  /\ outObs.refs[outObs.layers[2].id] # Blank
  /\ outObs.image # ToDataURL(Blank)

(***************************************************************************)
(* The three compositors of the board: getPreview, the thumbnail of save,  *)
(* exportImage.                                                            *)
(***************************************************************************)
InitFlat ==
  /\ layers = ProjectLayers
  /\ activeLayerId = "l_line"
  /\ stickerIndex = 2
  /\ canvasRefs \in {[l_color |-> RedWash, l_line |-> GreenVeil],
                     [l_color |-> GreenVeil, l_line |-> Picture]}
  /\ gco = [id \in LayerIds |-> "source-over"]
  /\ isDrawing = FALSE
  /\ lastStablePoint = NULL
  /\ currentHistoryStart = NULL
  /\ undoStack = <<HistoryStep("l_line", Blank, canvasRefs["l_line"])>>
  /\ redoStack = <<>>
  /\ canUndo = TRUE
  /\ canRedo = FALSE
  /\ textPos = Centre
  /\ isDraggingText = FALSE
  /\ pendingImages = <<>>
  /\ loader = Loaded
  /\ lineWidth = [id \in LayerIds |-> 1000]
  /\ mounted = TRUE
  /\ isSaving = FALSE
  /\ call = NULL
  /\ saves = <<>>
  /\ exporter = NotExporting
  /\ store = <<>>
  /\ InitObs("flat")

NextFlat ==
  \/ \E id \in DOMAIN canvasRefs : onToggleVisibility(id)
  \/ \E id \in DOMAIN canvasRefs, o \in Opacities : onUpdateOpacity(id, o)
  \/ \E d \in DOMAIN canvasRefs, t \in DOMAIN canvasRefs : onReorderLayers(d, t)
  \/ callGetPreview
  \/ callExportImage
  \/ handleExportClick
  \/ \E k \in DOMAIN saves : saveLayerStored(k)
  \/ saveTimeout

SpecFlat == InitFlat /\ [][NextFlat]_vars

\* one pixel of the flattening: the visible layers from the bottom up, each
\* laid source-over at its opacity on what lies below
RECURSIVE Stacked(_, _, _, _)
Stacked(vis, refs, n, i) ==
  IF n = 0 THEN Transparent
  ELSE SourceOver(Stacked(vis, refs, n - 1, i), refs[vis[n].id][i], vis[n].opacity)

Flattening(ls, refs) ==
  LET IsVisible(l) == l.visible
      vis == SelectSeq(ls, IsVisible)
  IN ToDataURL([i \in Pixels |-> Stacked(vis, refs, Len(vis), i)])

\* C11: getPreview, the thumbnail returned by save and exportImage return the
\* same image for the same layer list and buffers, namely every visible
\* layer drawn once, first layer at the bottom, source-over at its opacity;
\* and a step in which one of them runs changes no layer buffer and neither
\* history stack.
CompositorsAgree ==
  /\ [](outObs # NULL =>
         /\ outObs.image = Flattening(outObs.layers, outObs.refs)
         /\ getPreview(outObs.layers, outObs.refs) = outObs.image
         /\ thumbnail(outObs.layers, outObs.refs) = outObs.image
         /\ exportImage(outObs.layers, outObs.refs) = outObs.image)
  /\ [][(callGetPreview \/ callExportImage \/ \E k \in DOMAIN saves : saveLayerStored(k))
         => UNCHANGED <<canvasRefs, undoStack, redoStack>>]_vars

\* a save returned the thumbnail of two visible layers with content, the
\* upper one at half opacity, after the layers had been reordered
ThumbnailOfTwoLayers ==
  /\ outObs # NULL
  /\ outObs.by = "thumbnail"
  /\ outObs.layers[1].id = "l_line" /\ outObs.layers[1].visible
  /\ outObs.layers[2].visible /\ outObs.layers[2].opacity = 50
  /\ outObs.refs = [l_color |-> RedWash, l_line |-> GreenVeil]
  /\ undoStack # <<>>

(***************************************************************************)
(* The brush: pen and calligraphy strokes under pointer pressure.          *)
(***************************************************************************)
\* brush presets as the toolbar sets them: brushType and size
BrushSizes == {2, 4}
BrushSettings ==
  {[SettingsOf("brush", Black, 100) EXCEPT !.brushType = t, !.size = z] :
     t \in {"pen", "calligraphy"}, z \in BrushSizes}
\* pointer samples: a position of the canvas and PointerEvent.pressure in
\* hundredths (0 is what a pointer without pressure reports between contacts,
\* 50 what it reports while pressed, 100 full pressure)
BrushPressures == {0, 50, 100}
BrushEvents ==
  {[x |-> x, y |-> y, pressure |-> pr] :
     x \in 0..(Width - 1), y \in {0}, pr \in BrushPressures}

InitBrush == InitLoaded /\ InitObs("brush")

NextBrush ==
  \/ \E st \in BrushSettings, e \in BrushEvents : startDraw(st, e)
  \/ \E st \in BrushSettings, e \in BrushEvents : onMove(st, e)
  \/ stopDraw
  \/ undo

SpecBrush == InitBrush /\ [][NextBrush]_vars

\* C12: a calligraphy segment drawn for a pointer sample of pressure 1.0 has
\* width size x 2.0, and one drawn for a sample of pressure 0.0 has width
\* size x 0.4 (widths in thousandths), the pressure being the one the pointer
\* event carries into startDraw or onMove.
CalligraphyWidthAtEnds ==
  [][\A st \in BrushSettings, e \in BrushEvents :
       (st.brushType = "calligraphy" /\ (startDraw(st, e) \/ (isDrawing /\ onMove(st, e)))) =>
          /\ e.pressure = 100 => lineWidth'[activeLayerId] = st.size * 2000
          /\ e.pressure = 0 => lineWidth'[activeLayerId] = st.size * 400]_vars

(***************************************************************************)
(* Switching between stickers while editing.                               *)
(***************************************************************************)
\* the loaded editor on sticker 2; the store also holds a saved line layer
\* of sticker 3
InitProject ==
  /\ layers = ProjectLayers
  /\ activeLayerId = "l_line"
  /\ stickerIndex = 2
  /\ canvasRefs \in {[id \in LayerIds |-> Blank],
                     [id \in LayerIds |-> IF id = "l_color" THEN Picture ELSE Blank]}
  /\ gco = [id \in LayerIds |-> "source-over"]
  /\ isDrawing = FALSE
  /\ lastStablePoint = NULL
  /\ currentHistoryStart = NULL
  /\ undoStack = <<>>
  /\ redoStack = <<>>
  /\ canUndo = FALSE
  /\ canRedo = FALSE
  /\ textPos = Centre
  /\ isDraggingText = FALSE
  /\ pendingImages = <<>>
  /\ loader = Loaded
  /\ lineWidth = [id \in LayerIds |-> 1000]
  /\ mounted = TRUE
  /\ isSaving = FALSE
  /\ call = NULL
  /\ saves = <<>>
  /\ exporter = NotExporting
  /\ store = [k \in DOMAIN StoreOf(2, canvasRefs) \cup {<<3, "l_line">>} |->
                IF k[1] = 3 THEN ToDataURL(RedWash) ELSE StoreOf(2, canvasRefs)[k]]

InitLoad == InitProject /\ InitObs("load")

NextLoad ==
  \/ \E e \in PointerEvents : startDraw(SettingsOf("fill", Red, 100), e)
  \/ \E id \in LayerIds \cup {""} : clearLayer(id)
  \/ undo
  \/ redo
  \/ \E n \in Stickers : setActiveStickerId(n)
  \/ loadFetched
  \/ loadDecoded

SpecLoad == InitLoad /\ [][NextLoad]_vars

\* C13: once the active sticker has changed, no undo or redo moves a step
\* that the stacks held at the change, that is, restores a snapshot of the
\* previous sticker into a buffer of the new one; also while the layer
\* images of the new sticker are still loading.
NoStepOfPreviousSticker == ~loadObs.restored

(***************************************************************************)
(* Saving on a sticker switch, before an export and on leaving the editor. *)
(***************************************************************************)
\* no performSave run is under way
Quiet == \A k \in DOMAIN saves : saves[k].i = 0

InitSave == InitProject /\ InitObs("save")

\* the user draws (fills, clears a layer) while the board is on screen and no
\* save is running; switches, exports, leaving, and the store and the timer
\* answering, in any order
NextSave ==
  \/ \E e \in FillEvents : mounted /\ Quiet /\ startDraw(SettingsOf("fill", Red, 100), e)
  \/ \E id \in LayerIds : mounted /\ Quiet /\ clearLayer(id)
  \/ \E n \in Stickers : switchSticker(n)
  \/ handleExportClick
  \/ saveTimeout
  \/ \E k \in DOMAIN saves : saveLayerStored(k)
  \/ handleGoBack
  \/ loadFetched
  \/ loadDecoded

SpecSave == InitSave /\ [][NextSave]_vars

\* the timer of handleSaveSticker fires 500 ms after it was set; the store
\* may take any time, or never answer
SpecSaveFair == SpecSave /\ WF_vars(saveTimeout)

\* C14: a handleSaveSticker call that waits on a save returns, also when the
\* save never does: the wait ends with isSaving false, and a switchSticker
\* that was waiting has then made its sticker the active one (while the
\* Editor is on screen).
SaveWaitAlwaysEnds ==
  /\ (call # NULL) ~> (call = NULL /\ ~isSaving)
  /\ \A n \in Stickers :
       (call # NULL /\ call.then = "switch" /\ call.newIndex = n)
         ~> (call = NULL /\ ~isSaving /\ (stickerIndex = n \/ ~mounted))

\* the switch to sticker 3 went ahead on the timer while the save of sticker
\* 2 is still waiting for the store
SwitchedWhileSaveStalls ==
  /\ stickerIndex = 3
  /\ call = NULL /\ ~isSaving
  /\ saves # <<>> /\ saves[1].sidx = 2 /\ saves[1].i > 0

\* what a load gets from the store for a key: the image stored, or nothing,
\* which leaves the layer blank
Held(st, key) == IF key \in DOMAIN st THEN st[key] ELSE ToDataURL(Blank)

\* C15: a performSave run, when it returns, has written to the store, under
\* <<sticker index, layer id>>, the buffer of every layer of the sticker it
\* was started on (a blank layer may be left without an entry); also when
\* the sticker is switched or the Editor leaves the screen while it runs.
SaveWritesEveryLayer ==
  [][\A k \in DOMAIN saves :
       (saves[k].i > 0 /\ saves'[k].i = 0) =>
         \A j \in 1..Len(saves[k].ls) :
           LET key == <<saves[k].sidx, saves[k].ls[j].id>>
           IN Held(store', key) = ToDataURL(saveObs[k][key[2]])]_vars

(***************************************************************************)
(* clearLayer: properties.                                                 *)
(***************************************************************************)
\* C16: clearLayer(id) makes every pixel of layer id (of the active layer
\* when id is omitted) fully transparent, leaves the other layers as they
\* were, and pushes exactly one step, for that layer, whose undo (its before
\* snapshot written back into its layer) gives the content before the clear.
ClearLayerEffect ==
  [][\A id \in LayerIds \cup {""} :
       clearLayer(id) =>
         LET t == IF id = "" THEN activeLayerId ELSE id
         IN /\ \A i \in Pixels : canvasRefs'[t][i] = <<0, 0, 0, 0>>
            /\ \A o \in DOMAIN canvasRefs \ {t} : canvasRefs'[o] = canvasRefs[o]
            /\ Len(undoStack') = Len(undoStack) + 1
            /\ SubSeq(undoStack', 1, Len(undoStack)) = undoStack
            /\ undoStack'[Len(undoStack')].layerId = t
            /\ redoStack' = redoStack
            /\ LET step == undoStack'[Len(undoStack')]
               IN [canvasRefs' EXCEPT ![step.layerId] = step.before] = canvasRefs]_vars

\* the colour layer, which held the picture and is not the active layer, has
\* just been cleared by name while the line layer keeps its paint
ClearedNamedLayer ==
  /\ lastOp = "commit"
  /\ activeLayerId = "l_line"
  /\ Top(undoStack) = HistoryStep("l_color", Picture, Blank)
  /\ canvasRefs["l_color"] = Blank
  /\ canvasRefs["l_line"] # Blank

(***************************************************************************)
(* Importing pictures.                                                     *)
(***************************************************************************)
\* picture files the user imports: a square one of the canvas's size, an
\* upright one (1 x 2), a lying one (2 x 1), and a file that is not an image
Square == ToDataURL([i \in Pixels |-> <<0, 0, 255, 255>>])
Upright == [mime |-> "data:image/png", w |-> 1, h |-> 2, px |-> [i \in 0..1 |-> <<0, 0, 255, 255>>]]
Lying == [mime |-> "data:image/png", w |-> 2, h |-> 1, px |-> [i \in 0..1 |-> <<0, 255, 0, 255>>]]
ImportUrls == {Square, Upright, Lying, BadUrl}

InitImport == InitProject /\ canvasRefs["l_color"] = Picture /\ InitObs("last")

\* a session of at most MaxImportSteps fills and imports
MaxImportSteps == 2

NextImport ==
  \/ \E url \in ImportUrls :
       Len(undoStack) < MaxImportSteps /\ drawImageOnLayer(activeLayerId, url)
  \/ \E k \in 1..Len(pendingImages) : importOnload(k)
  \/ \E k \in 1..Len(pendingImages) : importOnerror(k)
  \/ \E e \in PointerEvents :
       Len(undoStack) < MaxImportSteps /\ startDraw(SettingsOf("fill", Red, 100), e)
  \/ \E n \in Stickers : setActiveStickerId(n)
  \/ loadFetched
  \/ loadDecoded

SpecImport == InitImport /\ [][NextImport]_vars

\* C17: an import whose bytes do not decode changes no layer buffer and
\* neither history stack and records no step: the call itself only sets the
\* image loading and returns, the image's onload never runs, and giving the
\* image up changes nothing.
FailedImportChangesNothing ==
  [][/\ \A url \in ImportUrls :
          drawImageOnLayer(activeLayerId, url)
            => UNCHANGED <<canvasRefs, undoStack, redoStack, canUndo, canRedo>>
     /\ \A k \in 1..Len(pendingImages) :
          ~Decodable(pendingImages[k].url) =>
            /\ ~importOnload(k)
            /\ importOnerror(k) => UNCHANGED <<canvasRefs, undoStack, redoStack, canUndo, canRedo>>]_vars

\* an import that does not decode has just been given up, with a step on the
\* undo stack and paint on the layer it was meant for
FailedImportGivenUp ==
  /\ lastOp = "error"
  /\ pendingImages = <<>>
  /\ undoStack # <<>>
  /\ canvasRefs[activeLayerId] # Blank

\* the rectangle lies within the canvas, is centred, keeps the proportions of
\* the image and reaches the canvas's bounds on at least one axis
FitsCentred(rect, iw, ih) ==
  /\ rect.x >= 0 /\ rect.y >= 0
  /\ rect.x + rect.w <= Width * rect.unit /\ rect.y + rect.h <= Height * rect.unit
  /\ 2 * rect.x + rect.w = Width * rect.unit /\ 2 * rect.y + rect.h = Height * rect.unit
  /\ rect.w * ih = rect.h * iw
  /\ rect.w = Width * rect.unit \/ rect.h = Height * rect.unit

\* pixel i lies wholly inside (outside) the rectangle
Col(i) == i % Width
Row(i) == i \div Width
Inside(rect, i) ==
  /\ rect.x <= Col(i) * rect.unit /\ (Col(i) + 1) * rect.unit <= rect.x + rect.w
  /\ rect.y <= Row(i) * rect.unit /\ (Row(i) + 1) * rect.unit <= rect.y + rect.h
Outside(rect, i) ==
  \/ (Col(i) + 1) * rect.unit <= rect.x \/ rect.x + rect.w <= Col(i) * rect.unit
  \/ (Row(i) + 1) * rect.unit <= rect.y \/ rect.y + rect.h <= Row(i) * rect.unit

Blue == <<0, 0, 0, 0, 15, 15>>
BrushTool == SettingsOf("brush", Red, 100)
TextTool == SettingsOf("text", Blue, 100)

InitText == InitLoaded /\ InitObs("last")

\* pointer events on the canvas and on the overlay, and the choice of tool
\* (the settings are read at each event)
NextText ==
  \/ \E st \in {BrushTool, TextTool}, e \in PointerEvents : startDraw(st, e)
  \/ \E st \in {BrushTool, TextTool}, e \in PointerEvents : onMove(st, e)
  \/ stopDraw
  \/ startDragText(TextTool)
  \/ cancelText(TextTool)
  \/ bakeText(TextTool)
  \/ \E id \in LayerIds : selectLayer(id)

SpecText == InitText /\ [][NextText]_vars

\* C19: while the tool is text, pointer-down and pointer-move on the canvas,
\* dragging the overlay and cancelling it change no layer buffer and neither
\* history stack; committing the text changes the active layer only and
\* records exactly one step, for that layer.
TextToolOnlyBakes ==
  [][/\ \A e \in PointerEvents :
          (startDraw(TextTool, e) \/ onMove(TextTool, e))
            => UNCHANGED <<canvasRefs, undoStack, redoStack>>
     /\ (startDragText(TextTool) \/ cancelText(TextTool))
          => UNCHANGED <<canvasRefs, undoStack, redoStack>>
     /\ bakeText(TextTool) =>
          /\ \A o \in DOMAIN canvasRefs \ {activeLayerId} : canvasRefs'[o] = canvasRefs[o]
          /\ undoStack' = undoStack \o <<[layerId |-> activeLayerId,
                                          before |-> canvasRefs[activeLayerId],
                                          after |-> canvasRefs'[activeLayerId]]>>
          /\ redoStack' = redoStack]_vars

(***************************************************************************)
(* Operations on a layer that has no canvas.                               *)
(***************************************************************************)
InitDelete == InitLoaded /\ InitObs("last")

\* a session in which layers are deleted
NextDelete ==
  \/ \E st \in Settings, e \in PointerEvents : startDraw(st, e)
  \/ stopDraw
  \/ \E st \in Settings : bakeText(st)
  \/ \E id \in LayerIds \cup {""} : clearLayer(id)
  \/ \E id \in LayerIds : drawImageOnLayer(id, BadUrl)
  \/ \E k \in 1..Len(pendingImages) : importOnerror(k)
  \/ callExportImage
  \/ undo
  \/ redo
  \/ \E id \in LayerIds : onDeleteLayer(id)

SpecDelete == InitDelete /\ [][NextDelete]_vars

\* C20: when the layer an operation is aimed at has no canvas, the operation
\* changes no layer buffer and neither history stack: pointer-down (stroke
\* start, fill), pointer-up, clearLayer, bakeText, drawImageOnLayer and
\* exportImage for the active or the named layer, undo and redo for the layer
\* of the step they move.
NoSurfaceNoOp ==
  [][/\ ~HasCtx(activeLayerId) =>
          /\ \A st \in Settings, e \in PointerEvents :
               startDraw(st, e) => UNCHANGED <<canvasRefs, undoStack, redoStack>>
          /\ stopDraw => UNCHANGED <<canvasRefs, undoStack, redoStack>>
          /\ \A st \in Settings :
               bakeText(st) => UNCHANGED <<canvasRefs, undoStack, redoStack>>
          /\ clearLayer("") => UNCHANGED <<canvasRefs, undoStack, redoStack>>
     /\ \A id \in LayerIds :
          (~HasCtx(id) /\ (clearLayer(id) \/ drawImageOnLayer(id, BadUrl)))
            => UNCHANGED <<canvasRefs, undoStack, redoStack>>
     /\ callExportImage => UNCHANGED <<canvasRefs, undoStack, redoStack>>
     /\ (undoStack # <<>> /\ ~HasCtx(Top(undoStack).layerId) /\ undo)
          => UNCHANGED <<canvasRefs, undoStack, redoStack>>
     /\ (redoStack # <<>> /\ ~HasCtx(Top(redoStack).layerId) /\ redo)
          => UNCHANGED <<canvasRefs, undoStack, redoStack>>]_vars

(***************************************************************************)
(* Loading layer images: the sticker load of the editor and the export.    *)
(***************************************************************************)
InitRetry == InitProject /\ InitObs("last")

\* the user paints, hides layers, goes over to another sticker and exports,
\* while saves, loads and the export run
NextRetry ==
  \/ \E e \in PointerEvents : mounted /\ Quiet /\ startDraw(SettingsOf("fill", Red, 100), e)
  \/ \E id \in LayerIds : onToggleVisibility(id)
  \/ \E n \in Stickers : switchSticker(n)
  \/ handleExportClick
  \/ saveTimeout
  \/ \E k \in 1..Len(saves) : saveLayerStored(k)
  \/ loadFetched
  \/ loadDecoded
  \/ exportPaused
  \/ exportFetched
  \/ exportDecoded

SpecRetry == InitRetry /\ [][NextRetry]_vars

\* what the store answers to the load the export run is waiting for, and to
\* the load the loadData run is waiting for
ExportAnswer ==
  LET key == <<exporter.s, exporter.ls[exporter.i].id>>
  IN IF key \in DOMAIN store THEN store[key] ELSE NULL
LoadAnswer ==
  LET key == <<stickerIndex, layers[loader.i].id>>
  IN IF key \in DOMAIN store THEN store[key] ELSE NULL

\* the export makes a second attempt for a layer exactly when the first
\* answer is empty; after an empty second answer the layer is passed over,
\* the canvas stays as it is and the run goes on
ExportRetriesOnce ==
  exportFetched =>
    LET e == exporter
        again == exporter'.phase = "fetch" /\ exporter'.s = e.s /\ exporter'.i = e.i
    IN /\ e.tries \in {1, 2}
       /\ again <=> (e.tries = 1 /\ ExportAnswer = NULL)
       /\ again => exporter'.tries = 2
       /\ (e.tries = 2 /\ ExportAnswer = NULL)
            => /\ exporter'.phase \in {"fetch", "done"}
               /\ exporter'.s = e.s => exporter'.ctx = e.ctx

\* the sticker load of the editor does the same
LoadRetriesOnce ==
  loadFetched =>
    (loader'.phase = "fetch" /\ loader'.i = loader.i) <=> LoadAnswer = NULL

\* C21: every layer-image load, of the sticker load of the editor and of the
\* export, makes at most two attempts for a layer: a second one exactly when
\* the first answer is empty; a layer whose second answer is empty too is
\* taken as blank and the remaining layers are still processed.
LoadsRetryOnce == [][ExportRetriesOnce /\ LoadRetriesOnce]_vars

(***************************************************************************)
(* The export: the warning of a blank sticker.                             *)
(***************************************************************************)
\* C22: the export warns of a sticker exactly when the sticker is a regular
\* one and flattening drew no pixel that is not transparent (the image made
\* for it is fully transparent): never of the main or the tab sticker, and
\* always of a regular sticker whose stored visible layers are all fully
\* transparent.
BlankWarningExact ==
  \A s \in DOMAIN exporter.files :
    (s \in exporter.warned)
      <=> (StickerType(s) = "regular" /\ Decode(exporter.files[s]) = Blank)

(***************************************************************************)
(* Strokes.                                                                *)
(***************************************************************************)
\* the brush and the eraser; the pointer at the centre and at the corner
StrokeSettings == {SettingsOf("brush", Red, 100), SettingsOf("eraser", Red, 100)}
StrokeEvents == {[x |-> p[1], y |-> p[2], pressure |-> 100] : p \in {Centre, <<0, 0>>}}

InitStroke == InitLoaded /\ canvasRefs["l_color"] = Blank /\ InitObs("last")

NextStroke ==
  \/ \E st \in StrokeSettings, e \in StrokeEvents : startDraw(st, e)
  \/ \E st \in StrokeSettings, e \in StrokeEvents : onMove(st, e)
  \/ stopDraw
  \/ undo
  \/ \E id \in LayerIds : selectLayer(id)

SpecStroke == InitStroke /\ [][NextStroke]_vars

\* C23: a brush or eraser stroke records exactly one step: the pointer-down
\* and the moves record none, the first pointer-up or pointer-leave after the
\* pointer-down appends exactly one, also when the pointer did not move or
\* nothing was changed, and a pointer-up or pointer-leave while no stroke is
\* open records nothing.
StrokeRecordsOneStep ==
  [][/\ \A st \in StrokeSettings, e \in StrokeEvents :
          /\ startDraw(st, e) => (isDrawing' /\ UNCHANGED <<undoStack, redoStack>>)
          /\ onMove(st, e) => UNCHANGED <<isDrawing, undoStack, redoStack>>
     /\ stopDraw =>
          /\ ~isDrawing'
          /\ redoStack' = redoStack
          /\ IF isDrawing
             THEN /\ Len(undoStack') = Len(undoStack) + 1
                  /\ SubSeq(undoStack', 1, Len(undoStack)) = undoStack
                  /\ Top(undoStack').layerId = activeLayerId
             ELSE UNCHANGED <<undoStack, canvasRefs>>]_vars

\* an eraser stroke without movement on the blank line layer, which changed
\* nothing, is on the undo stack as the second step, after a brush dot on
\* the colour layer
StillStrokeRecorded ==
  /\ lastOp = "commit"
  /\ ~isDrawing
  /\ Len(undoStack) = 2
  /\ undoStack[1].layerId = "l_color"
  /\ Top(undoStack) = HistoryStep("l_line", Blank, Blank)
  /\ gco["l_line"] = "destination-out"

(***************************************************************************)
(* The preview timer beside a stroke.                                      *)
(***************************************************************************)
InitView == InitLoaded /\ InitObs("view")

\* strokes of the brush, and the preview timer of the Editor, which fires
\* between any two pointer events
NextView ==
  \/ \E e \in StrokeEvents : startDraw(SettingsOf("brush", Red, 100), e)
  \/ \E e \in StrokeEvents : onMove(SettingsOf("brush", Red, 100), e)
  \/ stopDraw
  \/ callGetPreview

SpecView == InitView /\ [][NextView]_vars

\* C24: what getPreview read of the layer a stroke is on is the layer's
\* content fully before the stroke (its step's before snapshot) or fully
\* after it (its after snapshot), never a partly drawn stroke.
PreviewReadsWholeOperations ==
  [][(stopDraw /\ isDrawing /\ viewObs # NULL)
       => viewObs[activeLayerId] \in {Top(undoStack').before, Top(undoStack').after}]_vars

(***************************************************************************)
(* Operations that fall inside an open stroke.                             *)
(***************************************************************************)
InitFlight == InitProject /\ InitObs("last")

\* the user imports a picture or goes over to another sticker and draws
\* while the picture decodes and the sticker loads
NextFlight ==
  \/ \E e \in PointerEvents : startDraw(SettingsOf("brush", Red, 100), e)
  \/ \E e \in PointerEvents : onMove(SettingsOf("brush", Red, 100), e)
  \/ stopDraw
  \/ drawImageOnLayer(activeLayerId, Square)
  \/ \E k \in 1..Len(pendingImages) : importOnload(k)
  \/ \E n \in Stickers : setActiveStickerId(n)
  \/ loadFetched
  \/ loadDecoded

SpecFlight == InitFlight /\ [][NextFlight]_vars

\* C25: between the pointer-down of a stroke and its end nothing but the
\* stroke writes to the layer the stroke is on: not undo, redo, clearLayer,
\* the onload of an import, bakeText or the image draw of a sticker load.
OneWriterPerLayer ==
  [][(/\ isDrawing
      /\ \/ undo \/ redo
         \/ \E id \in LayerIds \cup {""} : clearLayer(id)
         \/ \E k \in 1..Len(pendingImages) : importOnload(k)
         \/ bakeText(TextTool)
         \/ loadDecoded)
       => canvasRefs'[activeLayerId] = canvasRefs[activeLayerId]]_vars

(***************************************************************************)
(* Text and imports after the eraser.                                      *)
(***************************************************************************)
InitBake == InitLoaded /\ InitObs("last")

\* strokes of the brush and the eraser, one after the other; between them
\* text is committed or a picture imported
NextBake ==
  \/ \E st \in StrokeSettings, e \in StrokeEvents : ~isDrawing /\ startDraw(st, e)
  \/ stopDraw
  \/ ~isDrawing /\ bakeText(TextTool)
  \/ ~isDrawing /\ drawImageOnLayer(activeLayerId, Square)
  \/ \E k \in 1..Len(pendingImages) : ~isDrawing /\ importOnload(k)
  \/ \E id \in LayerIds : ~isDrawing /\ selectLayer(id)

SpecBake == InitBake /\ [][NextBake]_vars

\* C26: bakeText, and the draw of an imported image, composite with
\* source-over in every reachable state, also after an eraser stroke on the
\* layer: they lower the alpha of no pixel.
BakeNeverErases ==
  [][(bakeText(TextTool) \/ \E k \in 1..Len(pendingImages) : importOnload(k))
       => \A id \in DOMAIN canvasRefs, i \in Pixels :
            canvasRefs'[id][i][4] >= canvasRefs[id][i][4]]_vars

(***************************************************************************)
(* Stabilization.                                                          *)
(***************************************************************************)
\* positions of the stabilization slider, and pointer positions far enough
\* apart for the stabilized point to fall between them (coordinates are
\* whole in the model: the stabilized coordinate is rounded down)
StabLevels == {0, 1, 5, 10}
StabSettings == {[SettingsOf("brush", Red, 100) EXCEPT !.stabilization = lv] : lv \in StabLevels}
StabEvents ==
  {[x |-> p[1], y |-> p[2], pressure |-> 100] : p \in {<<0, 0>>, <<1, 1>>, <<25, 0>>, <<50, 50>>}}

InitStab == InitLoaded /\ canvasRefs["l_color"] = Blank /\ InitObs("last")

NextStab ==
  \/ \E st \in StabSettings, e \in StabEvents : ~isDrawing /\ startDraw(st, e)
  \/ \E st \in StabSettings, e \in StabEvents : onMove(st, e)
  \/ stopDraw

SpecStab == InitStab /\ [][NextStab]_vars

Between(a, m, b) == (a <= m /\ m <= b) \/ (b <= m /\ m <= a)

\* the stabilized coordinate m for the previous one a and the raw one b, at
\* factor f hundredths: a + (b - a) * f / 100, rounded down to a whole
Eased(a, m, b, f) ==
  /\ 100 * (m - a) <= (b - a) * f
  /\ (b - a) * f < 100 * (m - a) + 100

\* C27: the first point of a stroke is the anchor as it is; for each later
\* raw sample the stabilized point is the raw point at stabilization 0, and
\* previous + (raw - previous) * (1 - 0.08 * s) at s in 1..10, with the
\* factor within 0.2 .. 0.92 and each coordinate between the previous
\* stabilized and the raw one; the segment from the previous stabilized
\* point to the new one is painted, and nothing else.
StabilizedFollowsRaw ==
  [][\A st \in StabSettings, e \in StabEvents :
       /\ (~isDrawing /\ startDraw(st, e))
            => (lastStablePoint'.x = e.x /\ lastStablePoint'.y = e.y)
       /\ (isDrawing /\ onMove(st, e)) =>
            LET prev == lastStablePoint
                new == lastStablePoint'
                lv == st.stabilization
                f == 100 - 8 * lv
                seg == Covered(<<prev.x, prev.y>>, <<new.x, new.y>>)
            IN /\ lv = 0 => (new.x = e.x /\ new.y = e.y)
               /\ lv \in 1..10 =>
                    /\ f \in 20..92
                    /\ Eased(prev.x, new.x, e.x, f) /\ Eased(prev.y, new.y, e.y, f)
                    /\ Between(prev.x, new.x, e.x) /\ Between(prev.y, new.y, e.y)
               /\ \A i \in Pixels :
                    canvasRefs'[activeLayerId][i] =
                      IF i \in seg THEN <<255, 0, 0, 255>> ELSE canvasRefs[activeLayerId][i]]_vars

\* a stroke begun at the corner whose first sample, at (50, 50) under
\* stabilization 10, moved the stabilized point a fifth of the way
StabilizedPartWay ==
  /\ isDrawing
  /\ lastStablePoint # NULL
  /\ lastStablePoint.x = 10 /\ lastStablePoint.y = 10
  /\ canvasRefs["l_line"][0] = <<255, 0, 0, 255>>

(***************************************************************************)
(* The fill tool and the pointer.                                          *)
(***************************************************************************)
FillTool == SettingsOf("fill", Blue, 100)

InitFillTool == InitLoaded /\ canvasRefs["l_color"] = Blank /\ InitObs("click")

\* pointer events on the canvas and the choice of tool (the settings are
\* read at each event)
NextFillTool ==
  \/ \E st \in {BrushTool, FillTool}, e \in StrokeEvents : startDraw(st, e)
  \/ \E st \in {BrushTool, FillTool}, e \in StrokeEvents : onMove(st, e)
  \/ stopDraw

SpecFillTool == InitFillTool /\ [][NextFillTool]_vars

\* C28: while the tool is fill, a pointer-down changes the active layer
\* only, to what floodFill returns, and pushes at most one step; a
\* pointer-move changes no buffer and pushes no step, and neither does a
\* pointer-up or pointer-leave after a fill click.
FillOnlyOnPointerDown ==
  [][/\ \A e \in StrokeEvents :
          startDraw(FillTool, e) =>
            LET before == canvasRefs[activeLayerId]
                after == floodFill(before, e.x, e.y, FillTool.color, FillTool.opacity)
            IN /\ canvasRefs' = [canvasRefs EXCEPT ![activeLayerId] =
                                   IF after = NULL THEN before ELSE after]
               /\ undoStack' = IF after = NULL THEN undoStack
                               ELSE undoStack \o <<HistoryStep(activeLayerId, before, after)>>
     /\ \A e \in StrokeEvents :
          onMove(FillTool, e) => UNCHANGED <<canvasRefs, undoStack, redoStack>>
     /\ (clickObs \in {"fill", "tap"} /\ stopDraw)
          => UNCHANGED <<canvasRefs, undoStack, redoStack>>]_vars

(***************************************************************************)
(* The loop of the flood fill.                                             *)
(***************************************************************************)
\* the run of the loop of floodFill from this seed on this buffer
LoopOf(data, x, y, st) ==
  LET c == hexToRgb(st.color)
  IN FillRun(<< <<x, y>> >>, {}, data, ReadPx(data, y * Width + x),
             <<c.r, c.g, c.b, AlphaOf(st.opacity)>>, NoLog)

NoRepeat(seq) == \A i, j \in 1..Len(seq) : i # j => seq[i] # seq[j]

\* the loop ended with an empty stack, having popped the seed and the four
\* entries pushed for each pixel written, and tested and written no pixel twice
EndsVisitingOnce(run) ==
  /\ run.stack = <<>>
  /\ run.log.pops = 1 + 4 * Len(run.log.written)
  /\ NoRepeat(run.log.tested)
  /\ NoRepeat(run.log.written)
  /\ \A k \in 1..Len(run.log.written) : \E n \in 1..Len(run.log.tested) :
       run.log.tested[n] = run.log.written[k]

\* C29: the loop of floodFill ends for every buffer and every seed, on the
\* canvas or outside it, and tests and writes each pixel at most once, also
\* when the pixel is on the stack several times.
FloodFillVisitsOnce ==
  [][/\ \A st \in FillSettings, e \in FillEvents :
          startDraw(st, e) =>
            LET run == LoopOf(canvasRefs[activeLayerId], e.x, e.y, st)
            IN EndsVisitingOnce(run)
                 /\ (floodFill(canvasRefs[activeLayerId], e.x, e.y, st.color, st.opacity) # NULL
                       => canvasRefs'[activeLayerId] = run.data)
     /\ \A st \in FillSettings, p \in OutsideSeeds :
          EndsVisitingOnce(LoopOf(canvasRefs[activeLayerId], p[1], p[2], st))]_vars

\* a fill of the line layer has just been recorded whose loop popped a pixel
\* it had visited before, and wrote the whole layer
FilledWithRevisits ==
  /\ Len(undoStack) = MaxHistory
  /\ Top(undoStack).layerId = "l_line"
  /\ canvasRefs["l_line"] = Top(undoStack).after
  /\ \E st \in FillSettings, e \in FillEvents :
       LET run == LoopOf(Top(undoStack).before, e.x, e.y, st)
       IN /\ run.data = Top(undoStack).after
          /\ run.log.skipped > 0
          /\ Len(run.log.written) = Width * Height

(***************************************************************************)
(* The sticker a stored layer image belongs to.                            *)
(***************************************************************************)
\* C30: every layer image the store takes under a key of sticker i is the
\* content that layer had in sticker i when the save began; a save that is
\* still running after its timeout fired and the editor switched to sticker
\* j never writes a buffer of sticker j, cleared or loaded, under a key of
\* sticker i.
StoredImageIsOfItsSticker ==
  [][\A k \in DOMAIN saves :
       saveLayerStored(k) =>
         LET id == saves[k].ls[saves[k].i].id
         IN store'[<<saves[k].sidx, id>>] = ToDataURL(saveObs[k][id])]_vars

(***************************************************************************)
(* The thumbnail a save records.                                           *)
(***************************************************************************)
InitThumb == InitProject /\ canvasRefs["l_color"] = Blank /\ InitObs("thumb")

\* the user fills a layer, selects a layer and switches stickers while no
\* save is running; the store and the timer answer in any order
NextThumb ==
  \/ \E e \in PointerEvents : Quiet /\ call = NULL /\ startDraw(SettingsOf("fill", Red, 100), e)
  \/ \E id \in LayerIds : Quiet /\ call = NULL /\ selectLayer(id)
  \/ \E n \in Stickers : switchSticker(n)
  \/ saveTimeout
  \/ \E k \in DOMAIN saves : saveLayerStored(k)
  \/ loadFetched
  \/ loadDecoded

SpecThumb == InitThumb /\ [][NextThumb]_vars

\* C31: when a save returns, its thumbnail is recorded on the sticker that was
\* active when the save was triggered, and the thumbnails of the other
\* stickers stay as they were; also after switches between stickers of the
\* same size with no change of the layers.
ThumbnailOnItsSticker ==
  [][\A k \in DOMAIN saves :
       (saves[k].i > 0 /\ saves'[k].i = 0) =>
         /\ localStickers'[saves[k].sidx] = saves'[k].thumb
         /\ \A o \in Stickers \ {saves[k].sidx} : localStickers'[o] = localStickers[o]]_vars

(***************************************************************************)
(* The thumbnails made when the editor opens.                              *)
(***************************************************************************)
\* layers hidden, dimmed and reordered, and the thumbnail of the sticker
\* generated from what is stored
NextOpen ==
  \/ \E id \in DOMAIN canvasRefs : onToggleVisibility(id)
  \/ \E id \in DOMAIN canvasRefs, o \in Opacities : onUpdateOpacity(id, o)
  \/ \E d \in DOMAIN canvasRefs, t \in DOMAIN canvasRefs : onReorderLayers(d, t)
  \/ generateAllThumbnails

SpecOpen == InitComp /\ [][NextOpen]_vars

\* C33: the thumbnail generated for a sticker when the editor opens is the
\* flattening the compositor makes of the same stored layers: hidden layers
\* skipped, each visible layer drawn at its opacity, in layer order.
ThumbnailFlattensLikeCompositor ==
  (outObs # NULL /\ outObs.by = "generateThumbnail")
    => outObs.image = compositeSticker(outObs.layers, Saved(outObs.layers, outObs.refs))

(***************************************************************************)
(* Loads superseded by a sticker switch.                                   *)
(***************************************************************************)
InitStale == InitProject /\ InitObs("stale")

\* the user fills a layer and switches stickers at any moment; the fetches
\* and decodes of the current load and of the superseded ones return in any
\* order
NextStale ==
  \/ \E e \in PointerEvents : startDraw(SettingsOf("fill", Red, 100), e)
  \/ \E n \in Stickers : setActiveStickerId(n)
  \/ loadFetched
  \/ loadDecoded
  \/ \E run \in superseded : supersededFetched(run)
  \/ \E run \in superseded : supersededDecoded(run)

SpecStale == InitStale /\ [][NextStale]_vars

\* C32: once the editor has switched to another sticker, no step of the load
\* of the earlier sticker draws into a buffer or resets the history, in
\* whatever order the pending fetches and decodes return; a superseded run
\* whose fetch returns is over.
SupersededLoadDoesNothing ==
  [][\A run \in superseded :
       /\ (supersededFetched(run) \/ supersededDecoded(run))
            => UNCHANGED <<canvasRefs, undoStack, redoStack, canUndo, canRedo, textPos>>
       /\ supersededFetched(run) => superseded' = superseded \ {run}]_vars

\* the decode of a layer image of sticker 2 has returned after the switch to
\* sticker 3, whose own image is on the line layer and whose history holds a
\* step
LateDecodeAfterSwitch ==
  /\ stickerIndex = 3
  /\ \E run \in superseded : run.sidx = 2 /\ run.late = 1
  /\ canvasRefs["l_line"] # Blank
  /\ undoStack # <<>>

(***************************************************************************)
(* The active layer and the layer list.                                    *)
(***************************************************************************)
\* the ids of the layers of the list
ListedIds == {layers[i].id : i \in 1..Len(layers)}

InitLayers == InitLoaded /\ InitObs("last")

\* the layer panel: a layer added, a listed layer deleted, selected or
\* dragged onto another; and strokes on the canvas
NextLayers ==
  \/ onAddLayer(NewLayerId)
  \/ \E id \in ListedIds : onDeleteLayer(id)
  \/ \E id \in ListedIds : selectLayer(id)
  \/ \E d \in ListedIds : \E t \in ListedIds \ {d} : onReorderLayers(d, t)
  \/ \E e \in PointerEvents : ~isDrawing /\ startDraw(BrushTool, e)
  \/ stopDraw

SpecLayers == InitLayers /\ [][NextLayers]_vars

\* C34: after any sequence of add, delete, select and reorder operations the
\* active layer is a layer of the list and has a canvas, so that drawing has
\* a buffer to go to.
ActiveLayerIsListed == activeLayerId \in ListedIds /\ HasCtx(activeLayerId)

(***************************************************************************)
(* The history and the layer list.                                         *)
(***************************************************************************)
InitKept == InitLoaded /\ canvasRefs["l_color"] = Blank /\ InitObs("last")

\* strokes, undo and redo, and layers selected and deleted in between
NextKept ==
  \/ \E e \in PointerEvents : ~isDrawing /\ startDraw(BrushTool, e)
  \/ stopDraw
  \/ undo
  \/ redo
  \/ \E id \in ListedIds : ~isDrawing /\ selectLayer(id)
  \/ \E id \in ListedIds : ~isDrawing /\ onDeleteLayer(id)

SpecKept == InitKept /\ [][NextKept]_vars

\* C35: every step on the undo or the redo stack is for a layer that is in
\* the list and has a canvas, also after layers were deleted, so that an
\* undo or redo that moves a step restores a buffer.
StepsHaveLayers ==
  /\ \A n \in 1..Len(undoStack) :
       undoStack[n].layerId \in ListedIds /\ HasCtx(undoStack[n].layerId)
  /\ \A n \in 1..Len(redoStack) :
       redoStack[n].layerId \in ListedIds /\ HasCtx(redoStack[n].layerId)

(***************************************************************************)
(* Reordering the layers.                                                  *)
(***************************************************************************)
\* what a drop on a layer row may carry: the id of a listed layer (a row was
\* dragged), or other text (something else was dragged onto the row)
DraggedIds == ListedIds \cup {"text"}

\* layers added, hidden, dimmed, and rows dropped on rows
NextOrder ==
  \/ onAddLayer(NewLayerId)
  \/ \E id \in ListedIds : onToggleVisibility(id)
  \/ \E id \in ListedIds, o \in Opacities : onUpdateOpacity(id, o)
  \/ \E d \in DraggedIds, t \in ListedIds : handleDrop(d, t)

SpecOrder == InitComp /\ [][NextOrder]_vars

\* the list without the layer d
Without(ls, d) == SelectSeq(ls, LAMBDA l : l.id # d)

\* C36: dropping layer d on layer t gives a permutation of the list, every
\* layer as it was, with d at the index t had and the other layers in their
\* order; a drop whose dragged id is not a layer id leaves the list as it is.
ReorderIsAMove ==
  [][\A d \in DraggedIds, t \in ListedIds :
       handleDrop(d, t) =>
         IF d \in ListedIds
         THEN /\ Len(layers') = Len(layers)
              /\ {layers'[i] : i \in 1..Len(layers')} = {layers[i] : i \in 1..Len(layers)}
              /\ layers'[IndexOfLayer(t) + 1].id = d
              /\ Without(layers', d) = Without(layers, d)
         ELSE layers' = layers]_vars

(***************************************************************************)
(* Backup and restore of a project (services/backup.ts).                   *)
(***************************************************************************)
MaxBackups == 1
MaxRestores == 2

\* JSON.stringify of a project and JSON.parse of the text: a key whose value
\* is undefined is left out of the text
Stringify(project) ==
  [k \in {"id", "name", "updatedAt", "stickers"}
           \cup (IF project.hasLayers THEN {"layers"} ELSE {}) |-> project[k]]
Parse(text) ==
  [id |-> text["id"], name |-> text["name"], updatedAt |-> text["updatedAt"],
   stickers |-> text["stickers"], hasLayers |-> "layers" \in DOMAIN text,
   layers |-> IF "layers" \in DOMAIN text THEN text["layers"] ELSE <<>>]

\* `${stickerIndex}_${layer.id}.png` in the folder "layers"
FileName(sidx, layerId) ==
  [dir |-> "layers/", stem |-> <<ToString(sidx)>> \o Split(layerId), ext |-> ".png"]

\* the backupProject run at sticker i (from 0) and layer j (from 1) of ls,
\* with the files put in the folder and what loadLayerImage has returned
BackingUp(project, ls, i, j, files, seen) ==
  [phase |-> IF i < Len(project.stickers) THEN "load" ELSE "zip",
   project |-> project, ls |-> ls, i |-> i, j |-> j, files |-> files, seen |-> seen]

\* backupProject up to its first loadLayerImage
backupProject(project) ==
  /\ backupRun.phase = "idle"
  /\ Len(downloads) < MaxBackups
  /\ backupRun' = BackingUp(project, IF project.hasLayers THEN project.layers ELSE DefaultLayers,
                            0, 1, <<>>, {})
  /\ UNCHANGED <<progVars, editVars, obsVars, db, downloads, restored>>

\* loadLayerImage(key) answers: the image, if any, goes into the folder, and
\* the loops move on
backupLoaded ==
  /\ backupRun.phase = "load"
  /\ LET r == backupRun
         layer == r.ls[r.j]
         key == LayerKey(r.project.id, r.i, layer.id)
         found == key \in DOMAIN db.layers
         base64Data == db.layers[key][2]
         files == IF found /\ base64Data # <<>>
                  THEN Append(r.files, [name |-> FileName(r.i, layer.id),
                                        data |-> FromBase64(base64Data)])
                  ELSE r.files
         seen == IF found
                 THEN r.seen \cup {[sidx |-> r.i, id |-> layer.id, url |-> db.layers[key]]}
                 ELSE r.seen
     IN backupRun' = IF r.j < Len(r.ls)
                     THEN BackingUp(r.project, r.ls, r.i, r.j + 1, files, seen)
                     ELSE BackingUp(r.project, r.ls, r.i + 1, 1, files, seen)
  /\ UNCHANGED <<progVars, editVars, obsVars, db, downloads, restored>>

\* zip.generateAsync answers and the file is handed to saveAs, or it rejects
backupGenerated(ok) ==
  /\ backupRun.phase = "zip"
  /\ downloads' =
       IF ok
       THEN Append(downloads,
                   [file |-> [kind |-> "zip",
                              meta |-> <<[valid |-> TRUE, version |-> 1, hasProject |-> TRUE,
                                          project |-> Stringify(backupRun.project)]>>,
                              files |-> backupRun.files],
                    seen |-> backupRun.seen])
       ELSE downloads
  /\ backupRun' = NotBackingUp
  /\ UNCHANGED <<progVars, editVars, obsVars, db, restored>>

\* saveLayerImage: put(dataUrl, key) on the layers store
saveLayerImage(key, dataUrl) ==
  /\ db.layers # (key :> dataUrl) @@ db.layers
  /\ db' = [db EXCEPT !.layers = (key :> dataUrl) @@ db.layers]
  /\ UNCHANGED <<progVars, editVars, obsVars, backupRun, downloads, restored>>

\* a variant of the layer id of restoreProject that keeps one piece
SecondPiece(parts) == <<parts[2]>>

\* const [stickerIndexStr, ...layerIdParts] = ...split("_");
\* layerIdParts.join("_")
LayerIdOf(parts) == Tail(parts)

\* the key restoreProject stores the image of a file of the folder under
NewKey(newId, file) ==
  LET fileName == [file.name EXCEPT !.dir = ""]
      parts == [fileName EXCEPT !.ext = ""].stem
  IN Split(newId) \o <<Head(parts)>> \o LayerIdOf(parts)

\* files that are not backups: not a zip, a zip without project.json, with a
\* project.json that is not JSON, with one that has no project
BadFiles ==
  {[kind |-> "text", meta |-> <<>>, files |-> <<>>],
   [kind |-> "zip", meta |-> <<>>, files |-> <<>>],
   [kind |-> "zip", meta |-> <<[valid |-> FALSE]>>, files |-> <<>>],
   [kind |-> "zip", meta |-> <<[valid |-> TRUE, version |-> 1, hasProject |-> FALSE]>>,
    files |-> <<>>]}

\* the fresh ids crypto.randomUUID() returns
NewIds == {"p2", "p3"}

\* which write of a restore the database rejects: none (0), the n-th
\* saveLayerImage, or saveProject (one more than the files)
FailureOf(file, failAt) == IF failAt = 3 THEN Len(file.files) + 1 ELSE failAt

\* restoreProject(file), JSZip loaded or not (lib)
restoreProject(file, newId, lib, failAt) ==
  /\ restored.calls < MaxRestores
  /\ backupRun.phase = "idle"
  /\ \A q \in db.projects : q.id # newId
  /\ \A k \in DOMAIN db.layers : k[1] # newId
  /\ LET readable == /\ lib
                     /\ file.kind = "zip"
                     /\ file.meta # <<>>
                     /\ file.meta[1].valid
                     /\ file.meta[1].hasProject
         project == Parse(file.meta[1].project)
         newProject == [project EXCEPT !.id = newId,
                                       !.name = Append(project.name, " (Imported)"),
                                       !.updatedAt = 1]
         fail == FailureOf(file, failAt)
         n == IF ~readable THEN 0
              ELSE IF fail = 0 THEN Len(file.files) ELSE Min(fail - 1, Len(file.files))
         written == [k \in {NewKey(newId, file.files[m]) : m \in 1..n} |->
                       LET m == CHOOSE m \in 1..n : NewKey(newId, file.files[m]) = k
                       IN <<"data:image/png;base64", Base64(file.files[m].data)>>]
         ok == readable /\ fail = 0
     IN /\ db' = [projects |-> IF ok THEN db.projects \cup {newProject} ELSE db.projects,
                  layers |-> written @@ db.layers]
        /\ restored' = [calls |-> restored.calls + 1, ok |-> ok,
                        project |-> IF ok THEN newProject ELSE NULL]
  /\ UNCHANGED <<progVars, editVars, obsVars, backupRun, downloads>>

InitBackup == InitProject /\ InitObs("backup")

\* the files the user can pick in the Dashboard
Files == {downloads[n].file : n \in 1..Len(downloads)} \cup BadFiles

\* a backup of the project, the editor saving the open sticker meanwhile, and
\* restores of the backup and of other files
NextBackup ==
  \/ \E q \in db.projects : backupProject(q)
  \/ backupLoaded
  \/ \E ok \in BOOLEAN : backupGenerated(ok)
  \/ \E l \in LayerIds : saveLayerImage(LayerKey("p1", stickerIndex, l), PngUrl(PngB))
  \/ \E f \in Files, id \in NewIds, lib \in BOOLEAN, failAt \in 0..3 :
       restoreProject(f, id, lib, failAt)

SpecBackup == InitBackup /\ [][NextBackup]_vars

\* C37: a restore of a backup leaves every project and every stored image
\* as it was; when it returns a project, that project is saved under the new
\* id and every image the backup read, for a sticker index and a layer of the
\* project, is stored unchanged under newId_stickerIndex_layerId; when it
\* fails (returns null) no project has been saved.
BackupRestoreRoundTrip ==
  [][/\ \A n \in 1..Len(downloads), id \in NewIds, lib \in BOOLEAN, failAt \in 0..3 :
          restoreProject(downloads[n].file, id, lib, failAt) =>
            /\ \A k \in DOMAIN db.layers : k \in DOMAIN db'.layers /\ db'.layers[k] = db.layers[k]
            /\ db.projects \subseteq db'.projects
            /\ IF restored'.ok
               THEN /\ restored'.project.id = id
                    /\ db'.projects = db.projects \cup {restored'.project}
                    /\ \A s \in downloads[n].seen :
                         /\ LayerKey(id, s.sidx, s.id) \in DOMAIN db'.layers
                         /\ db'.layers[LayerKey(id, s.sidx, s.id)] = s.url
               ELSE db'.projects = db.projects
     /\ \A f \in BadFiles, id \in NewIds, lib \in BOOLEAN, failAt \in 0..3 :
          restoreProject(f, id, lib, failAt) => ~restored'.ok /\ db' = db]_vars

\* a backup that read a stored image has been restored
RestoredAnImage ==
  /\ restored.ok
  /\ \E n \in 1..Len(downloads) : downloads[n].seen # {}
  /\ \E k \in DOMAIN db.layers : k[1] = restored.project.id

====
